---- MODULE Spec2Model ----
(***************************************************************************)
(* A model of the tabular data-analysis engine of excelAnalyser            *)
(* (src/utils/data_analyzer.py, class DataAnalyzer).                       *)
(*                                                                         *)
(* The state is the table held by the analyzer (self.data) and the         *)
(* outcome of the last call made on it (ret): its return value, or the     *)
(* exception it ended with.  Every operation is one action that models     *)
(* the whole method.                                                       *)
(*                                                                         *)
(* Numbers.  Cell values are small naturals; a missing cell (NaN / None)   *)
(* is the value NaN.  Floating-point results are kept exact: a percentage  *)
(* rounded to 2 decimals is an integer number of hundredths, a quartile    *)
(* is an integer number of quarters, a correlation r is kept as the pair   *)
(* (cov, vx * vy) with r = cov / sqrt(vx * vy), and every comparison is    *)
(* done by cross-multiplication.  A float that is nan is kind "nan".       *)
(***************************************************************************)
EXTENDS Integers, Sequences, FiniteSets, TLC

VARIABLES data, ret, tie, memo, analysis_complete, ppt, fp

vars == <<data, ret, tie, memo, analysis_complete, ppt, fp>>

-----------------------------------------------------------------------------
(* Bounds of the model *)

MaxRows == 3
LongRows == 11

-----------------------------------------------------------------------------
(* The table: self.data, a pandas DataFrame *)

\* A missing cell: what isnull() is true of, what dropna() drops, what every
\* comparison is false of.
NaN == -1

Cells == {NaN, 0, 1}

DTypes == {"number", "object", "datetime"}

\* A name is the sequence of its characters.
ColNames == <<<<"s", "a", "l", "e", "_", "a", "m", "o", "u", "n", "t">>,
             <<"s", "t", "a", "t", "u", "s">>,
             <<"q", "t", "y">>,
             <<"p", "r", "i", "c", "e">>,
             <<"r", "e", "g", "i", "o", "n">>>>

IsNull(v) == v = NaN

\* str.lower() on the letters, character by character
UpperCase == <<"A", "B", "C", "D", "E", "F", "G", "H", "I", "J", "K", "L", "M",
              "N", "O", "P", "Q", "R", "S", "T", "U", "V", "W", "X", "Y", "Z">>

LowerCase == <<"a", "b", "c", "d", "e", "f", "g", "h", "i", "j", "k", "l", "m",
              "n", "o", "p", "q", "r", "s", "t", "u", "v", "w", "x", "y", "z">>

LowerChar(c) ==
    IF \E i \in DOMAIN UpperCase : UpperCase[i] = c
    THEN LowerCase[CHOOSE i \in DOMAIN UpperCase : UpperCase[i] = c]
    ELSE c

Lower(name) == [i \in DOMAIN name |-> LowerChar(name[i])]

\* keyword in name: the keyword is a substring of the name
Contains(name, keyword) ==
    \E i \in 0 .. Len(name) - Len(keyword) :
        SubSeq(name, i + 1, i + Len(keyword)) = keyword

\* Series.nunique(): the distinct non-null values
NUnique(col) ==
    Cardinality({col.vals[r] : r \in {q \in DOMAIN col.vals : ~IsNull(col.vals[q])}})

Range(s) == {s[i] : i \in DOMAIN s}

RECURSIVE SumSeq(_)
SumSeq(s) == IF s = <<>> THEN 0 ELSE s[1] + SumSeq(Tail(s))

\* Sum over a finite set of integers produced by f on the rows in S.
RECURSIVE SumOver(_, _)
SumOver(S, f) ==
    IF S = {} THEN 0
    ELSE LET i == CHOOSE x \in S : TRUE
         IN  f[i] + SumOver(S \ {i}, f)

Abs(x) == IF x < 0 THEN -x ELSE x

RECURSIVE Gcd(_, _)
Gcd(a, b) == IF b = 0 THEN a ELSE Gcd(b, a % b)

NRows(d) == d.nrows

NCols(d) == Len(d.cols)

\* The positions of the columns select_dtypes(include=[np.number]) keeps,
\* in table order.
NumericCols(d) == SelectSeq([i \in 1 .. NCols(d) |-> i],
                            LAMBDA i : d.cols[i].dtype = "number")

Row(d, r) == [i \in 1 .. NCols(d) |-> d.cols[i].vals[r]]

\* isnull().sum() of one column
MissingCount(col) == Cardinality({r \in DOMAIN col.vals : IsNull(col.vals[r])})

NonNullRows(col) == {r \in DOMAIN col.vals : ~IsNull(col.vals[r])}

-----------------------------------------------------------------------------
(* Floats *)

Num(h) == [kind |-> "num", h |-> h]

NanFloat == [kind |-> "nan", h |-> 0]

InfFloat == [kind |-> "inf", h |-> 0]

\* p / q rounded to the nearest integer, ties to the even one, for p >= 0, q > 0.
RoundHalfEven(p, q) ==
    LET fl == p \div q
        rem2 == 2 * (p % q)
    IN  IF rem2 < q THEN fl
        ELSE IF rem2 > q THEN fl + 1
        ELSE IF fl % 2 = 0 THEN fl ELSE fl + 1

\* Doubles.  The percentages are computed in doubles, every operation
\* rounded to the nearest double (ties to the even one).  A double is
\* m * 2^e with m a natural of at most Mantissa bits, kept as the sequence
\* of its bits, the lowest first and the highest a 1.
Mantissa == 53

RECURSIVE BitsOf(_)
BitsOf(n) == IF n = 0 THEN <<>> ELSE <<n % 2>> \o BitsOf(n \div 2)

\* b * c + carry for a small natural c
RECURSIVE MulSmall(_, _, _)
MulSmall(b, c, carry) ==
    IF b = <<>> THEN BitsOf(carry)
    ELSE <<(b[1] * c + carry) % 2>>
         \o MulSmall(Tail(b), c, (b[1] * c + carry) \div 2)

\* b + 1
RECURSIVE Inc(_)
Inc(b) ==
    IF b = <<>> THEN <<1>>
    ELSE IF b[1] = 0 THEN <<1>> \o Tail(b)
    ELSE <<0>> \o Inc(Tail(b))

\* b * 2^k
ShiftLeft(b, k) == IF b = <<>> THEN <<>> ELSE [i \in 1 .. k |-> 0] \o b

\* The sign of a - b
RECURSIVE CmpBits(_, _)
CmpBits(a, b) ==
    IF Len(a) # Len(b) THEN (IF Len(a) < Len(b) THEN -1 ELSE 1)
    ELSE IF a = <<>> THEN 0
    ELSE IF a[Len(a)] # b[Len(b)] THEN (IF a[Len(a)] < b[Len(b)] THEN -1 ELSE 1)
    ELSE CmpBits(SubSeq(a, 1, Len(a) - 1), SubSeq(b, 1, Len(b) - 1))

\* The double nearest to m * 2^e (plus less than 2^e when sticky)
Round53(m, e, sticky) ==
    LET t == Len(m) - Mantissa
    IN  IF t <= 0 THEN [m |-> m, e |-> e]
        ELSE LET kept == SubSeq(m, t + 1, Len(m))
                 rest == sticky \/ \E i \in 1 .. t - 1 : m[i] = 1
                 up == m[t] = 1 /\ (rest \/ kept[1] = 1)
             IN  [m |-> IF up THEN Inc(kept) ELSE kept, e |-> e + t]

\* The bits of n / d by long division: q = floor(n * 2^s / d) with remainder
\* r, until the division ends or q has one bit more than a double holds
RECURSIVE DivBits(_, _, _, _)
DivBits(q, r, d, s) ==
    IF r = 0 \/ Len(q) = Mantissa + 1 THEN [q |-> q, r |-> r, s |-> s]
    ELSE LET bit == IF 2 * r >= d THEN 1 ELSE 0
         IN  DivBits(IF q = <<>> /\ bit = 0 THEN <<>> ELSE <<bit>> \o q,
                     2 * r - bit * d, d, s + 1)

\* n / d, for naturals n and d > 0
DivDouble(n, d) ==
    LET w == DivBits(BitsOf(n \div d), n % d, d, 0)
    IN  Round53(w.q, -w.s, w.r # 0)

\* x * 100
Times100(x) == Round53(MulSmall(x.m, 100, 0), x.e, FALSE)

\* The sign of x - a / b, for a double x and naturals a and b > 0
CmpRat(x, a, b) ==
    IF x.e >= 0 THEN CmpBits(ShiftLeft(MulSmall(x.m, b, 0), x.e), BitsOf(a))
    ELSE CmpBits(MulSmall(x.m, b, 0), ShiftLeft(BitsOf(a), -x.e))

\* (num / den) * 100, the double
Pct(num, den) == Times100(DivDouble(num, den))

\* num / den * 100 is exactly half-way between two hundredths: it is
\* HalfHundredths(num, den) / 200, an odd number of two-hundredths
HalfHundredths(num, den) == (num * 20000) \div den

HalfWayPct(num, den) ==
    /\ (num * 20000) % den = 0
    /\ HalfHundredths(num, den) % 2 = 1

\* The hundredths nearest to a double that is below (side < 0), at (0) or
\* above (> 0) the odd number t of two-hundredths; at it, the even one
NearestHundredth(side, t) ==
    IF side < 0 THEN (t - 1) \div 2
    ELSE IF side > 0 THEN (t + 1) \div 2
    ELSE IF ((t - 1) \div 2) % 2 = 0 THEN (t - 1) \div 2 ELSE (t + 1) \div 2

\* round(x, 2) of numpy for the double x = (num / den) * 100, in hundredths:
\* rint(x * 100) / 100.  The doubles are a few units of the last place from
\* the exact values, which only a value half-way between two hundredths
\* can show.
Round2(num, den) ==
    IF HalfWayPct(num, den)
    THEN NearestHundredth(CmpRat(Times100(Pct(num, den)),
                                 HalfHundredths(num, den), 2),
                          HalfHundredths(num, den))
    ELSE RoundHalfEven(num * 10000, den)

\* f"{x:.2f}" for the double x = (num / den) * 100, in hundredths: the
\* decimal nearest to the double
Format2f(num, den) ==
    IF HalfWayPct(num, den)
    THEN NearestHundredth(CmpRat(Pct(num, den), HalfHundredths(num, den), 200),
                          HalfHundredths(num, den))
    ELSE RoundHalfEven(num * 10000, den)

\* round((num / den) * 100, 2), in hundredths.  num is a numpy scalar, so a
\* zero den gives nan (0 / 0) or inf, never ZeroDivisionError.
RoundPct(num, den) ==
    IF den = 0 THEN (IF num = 0 THEN NanFloat ELSE InfFloat)
    ELSE Num(Round2(num, den))

-----------------------------------------------------------------------------
(* Sorting.  sort_values(..., ascending=False) is called with the default     *)
(* kind='quicksort', which numpy documents as not stable: the order of rows   *)
(* with equal keys is whatever the build's argsort produces.  A build is      *)
(* deterministic, the same keys come out in the same order on every call:     *)
(* tie is the build's order among equal keys, tie[i] being the rank of the    *)
(* i-th row of the input.                                                     *)

RECURSIVE PermSeqs(_)
PermSeqs(S) ==
    IF S = {} THEN {<<>>}
    ELSE UNION {{<<x>> \o p : p \in PermSeqs(S \ {x})} : x \in S}

\* keys[i] is the sort key of s[i], rank[i] its rank among equal keys
SortDescending(s, keys, rank) ==
    LET n == Len(s)
        p == CHOOSE q \in PermSeqs(1 .. n) :
                 \A i \in 1 .. n - 1 :
                     \/ keys[q[i]] > keys[q[i + 1]]
                     \/ /\ keys[q[i]] = keys[q[i + 1]]
                        /\ rank[q[i]] < rank[q[i + 1]]
    IN  [i \in 1 .. n |-> s[p[i]]]

-----------------------------------------------------------------------------
(* The outcome of a call *)

NoMetrics == [total_cells |-> 0, missing_cells |-> 0, missing_pct |-> Num(0),
              duplicate_rows |-> 0, duplicate_pct |-> Num(0),
              completeness |-> Num(0)]

\* st.session_state.data before any upload: no table
None == [nrows |-> -1, cols |-> <<>>]

\* The payload of generate_ai_insights: the dictionary it returns
Payload(summary, key_themes, recommendations, content_quality) ==
    [summary |-> summary, key_themes |-> key_themes,
     recommendations |-> recommendations,
     content_quality |-> content_quality]

\* No payload returned
NoPayload == Payload("", <<>>, <<>>, "")

NoRet == [op |-> "none", exc |-> "none", method |-> "", threshold |-> 0,
          metrics |-> NoMetrics, missing |-> <<>>, outliers |-> <<>>,
          strong |-> <<>>,
          matrix |-> [empty |-> TRUE, labels |-> <<>>, m |-> <<>>],
          patterns |-> [time_series |-> <<>>, id_columns |-> <<>>,
                        potential_categorical |-> <<>>],
          kpis |-> <<>>, display |-> <<>>,
          basic_info |-> [rows |-> 0, columns |-> 0, memory_mb |-> 0,
                          numerical |-> 0, categorical |-> 0, datetime |-> 0],
          now |-> 0, report |-> <<>>, insights |-> NoPayload,
          calls |-> 0, requests |-> <<>>, read |-> None, stopped |-> FALSE,
          writes |-> 0, column |-> <<>>, kpi |-> <<0, 0>>, value |-> <<>>]

-----------------------------------------------------------------------------
(* DataAnalyzer.get_data_quality_metrics *)

MissingCells(d) ==
    SumSeq([i \in 1 .. NCols(d) |-> MissingCount(d.cols[i])])

\* duplicated().sum(): the rows equal to an earlier row (NaN equals NaN there)
DuplicateRows(d) ==
    Cardinality({r \in 1 .. NRows(d) :
                    \E q \in 1 .. r - 1 : Row(d, q) = Row(d, r)})

get_data_quality_metrics(d) ==
    LET total_cells == NRows(d) * NCols(d)
        missing_cells == MissingCells(d)
        duplicate_rows == DuplicateRows(d)
    IN  [total_cells |-> total_cells,
         missing_cells |-> missing_cells,
         missing_pct |-> RoundPct(missing_cells, total_cells),
         duplicate_rows |-> duplicate_rows,
         duplicate_pct |-> RoundPct(duplicate_rows, NRows(d)),
         completeness |-> RoundPct(total_cells - missing_cells, total_cells)]

-----------------------------------------------------------------------------
(* DataAnalyzer.analyze_missing_values *)

\* One row of the returned frame: the column, Missing_Count and
\* Missing_Percentage = (count / len(data)) * 100, the double nearest to
\* pct_num / pct_den.
MissingEntry(d, i) ==
    [col |-> d.cols[i].name,
     count |-> MissingCount(d.cols[i]),
     pct_num |-> MissingCount(d.cols[i]) * 100,
     pct_den |-> NRows(d)]

\* MissingRows without the filter missing_data > 0
MissingRowsUnfiltered(d) ==
    [k \in 1 .. NCols(d) |-> MissingEntry(d, k)]

\* missing_data[missing_data > 0], in table order
MissingRows(d) ==
    LET keep == SelectSeq([i \in 1 .. NCols(d) |-> i],
                          LAMBDA i : MissingCount(d.cols[i]) > 0)
    IN  [k \in 1 .. Len(keep) |-> MissingEntry(d, keep[k])]

\* The frame the call returns: pd.DataFrame() when nothing is missing, else
\* the rows sorted by Missing_Count descending.
analyze_missing_values(d, rank) ==
    LET rows == MissingRows(d)
    IN  IF rows = <<>> THEN <<>>
        ELSE SortDescending(rows, [k \in 1 .. Len(rows) |-> rows[k].count], rank)

-----------------------------------------------------------------------------
(* DataAnalyzer.detect_outliers *)

\* dropna(): the non-null values, in row order
NonNullVals(col) == SelectSeq(col.vals, LAMBDA v : ~IsNull(v))

RECURSIVE Insert(_, _)
Insert(v, s) ==
    IF s = <<>> THEN <<v>>
    ELSE IF v <= s[1] THEN <<v>> \o s
    ELSE <<s[1]>> \o Insert(v, Tail(s))

RECURSIVE SortAsc(_)
SortAsc(s) == IF s = <<>> THEN <<>> ELSE Insert(s[1], SortAsc(Tail(s)))

\* Quantile4 without the interpolation (the lower order statistic)
Quantile4Lower(x, q4) == 4 * x[((q4 * (Len(x) - 1)) \div 4) + 1]

\* Series.quantile(q4 / 4) of x, the sorted non-null values (x not empty), in
\* quarters: linear interpolation between the order statistics around
\* position (len - 1) * q.
Quantile4(x, q4) ==
    LET pos4 == q4 * (Len(x) - 1)
        lo == (pos4 \div 4) + 1
        frac4 == pos4 % 4
    IN  IF frac4 = 0 THEN 4 * x[lo]
        ELSE 4 * x[lo] + frac4 * (x[lo + 1] - x[lo])

\* A Series of flagged values: the rows in rws (index labels), in row order,
\* each with the value of col in that row.
SeriesAt(col, rws) ==
    LET idx == SelectSeq([r \in DOMAIN col.vals |-> r], LAMBDA r : r \in rws)
    IN  [k \in 1 .. Len(idx) |-> [row |-> idx[k], val |-> col.vals[idx[k]]]]

\* method == 'iqr': the rows below Q1 - 1.5 * IQR or above Q3 + 1.5 * IQR.
\* Bounds are kept in eighths.  On an all-null column the quartiles are nan
\* and both comparisons are false of every row.
IqrOutliers(col) ==
    LET x == SortAsc(NonNullVals(col))
        Q1 == Quantile4(x, 1)
        Q3 == Quantile4(x, 3)
        IQR == Q3 - Q1
        lower_bound == 2 * Q1 - 3 * IQR
        upper_bound == 2 * Q3 + 3 * IQR
    IN  IF x = <<>> THEN <<>>
        ELSE SeriesAt(col, {r \in NonNullRows(col) :
                               \/ 8 * col.vals[r] < lower_bound
                               \/ 8 * col.vals[r] > upper_bound})

\* np.abs(stats.zscore(x))[k] for x the dropna()ed values: with n = len(x),
\* S = sum(x) and SS = sum(x * x), z = (x[k] - S/n) / sqrt(SS/n - (S/n)^2) (ddof
\* 0), so |z| is above, at or below 3 as (n x[k] - S)^2 is above, at or below
\* 9 (n SS - S^2).  A constant x has z = nan.
ZDev(x, k) == Len(x) * x[k] - SumSeq(x)

ZVar(x) ==
    Len(x) * SumSeq([j \in 1 .. Len(x) |-> x[j] * x[j]]) - SumSeq(x) * SumSeq(x)

\* |z| of x[k] is exactly 3
ZIs3(x, k) == ZVar(x) > 0 /\ ZDev(x, k) * ZDev(x, k) = 9 * ZVar(x)

RECURSIVE IsPow2(_)
IsPow2(n) == n = 1 \/ (n > 1 /\ n % 2 = 0 /\ IsPow2(n \div 2))

\* a / b is a double, for small integers a and b > 0
Dyadic(a, b) == IsPow2(b \div Gcd(Abs(a), b))

\* The mean S / n and the standard deviation of an x with a z of exactly 3
\* (it is |n x[k] - S| / 3n) are doubles: then so are the differences from
\* the mean, their squares and the sums of these in whatever order, and every
\* build computes a z of exactly 3.0.  Otherwise the z that is computed is
\* 3.0 or a double next to it, depending on the order in which the build
\* sums and on how its zscore arranges the operations.
ZInDoubles(x, k) ==
    /\ Dyadic(SumSeq(x), Len(x))
    /\ Dyadic(Abs(ZDev(x, k)) \div 3, Len(x))

\* np.abs(stats.zscore(x))[k] > 3.  err tells where the doubles of the
\* build put a |z| that is exactly 3 and is not computed exactly: below 3
\* (-1), at 3 (0) or above 3 (1).  Fewer than 18 values have one such value
\* at most, so that one err stands for a column.
ZAbove3(x, k, err) ==
    IF ZIs3(x, k) THEN ~ZInDoubles(x, k) /\ err > 0
    ELSE ZDev(x, k) * ZDev(x, k) > 9 * ZVar(x)

\* z_scores > 3: one flag per non-null value
ZFlags(col, err) ==
    LET x == NonNullVals(col)
    IN  [k \in 1 .. Len(x) |-> ZAbove3(x, k, err)]

\* method == 'zscore': self.data[col][z_scores > 3] indexes the whole column
\* by a mask that has one entry per NON-NULL value; pandas rejects a boolean
\* index whose length (or index) differs from the column's.
ZscoreFits(col) == Len(NonNullVals(col)) = Len(col.vals)

ZscoreOutliers(col, err) ==
    SeriesAt(col, {r \in DOMAIN col.vals : ZFlags(col, err)[r]})

Methods == {"iqr", "zscore", "mad"}

\* What the loop body binds `outliers` to for a column.
OutliersOf(col, method, err) ==
    IF method = "iqr" THEN IqrOutliers(col) ELSE ZscoreOutliers(col, err)

\* StoreOutliers without the test len(outliers) > 0
StoreOutliersAlways(info, col, outliers) ==
    Append(info, [col |-> col.name, outliers |-> outliers])

\* if len(outliers) > 0: outliers_info[col] = outliers
StoreOutliers(info, col, outliers) ==
    IF Len(outliers) > 0
    THEN Append(info, [col |-> col.name, outliers |-> outliers])
    ELSE info

\* for col in numerical_cols: ..., from the k-th numeric column on, with the
\* mapping built so far (a dict, kept in insertion order).
RECURSIVE OutlierLoop(_, _, _, _, _)
OutlierLoop(d, method, k, info, err) ==
    IF k > Len(NumericCols(d)) THEN [exc |-> "none", info |-> info]
    ELSE LET col == d.cols[NumericCols(d)[k]]
         IN  IF method \notin {"iqr", "zscore"}
             THEN [exc |-> "UnboundLocalError", info |-> <<>>]
             ELSE IF method = "zscore" /\ ~ZscoreFits(col)
             THEN [exc |-> "IndexError", info |-> <<>>]
             ELSE OutlierLoop(d, method, k + 1,
                              StoreOutliers(info, col,
                                            OutliersOf(col, method, err[k])),
                              err)

\* err[k] is the err of the z-scores of the k-th numeric column
detect_outliers(d, method, err) == OutlierLoop(d, method, 1, <<>>, err)

-----------------------------------------------------------------------------
(* DataAnalyzer.calculate_correlation_matrix *)

\* a / b >= p / q for a, p >= 0 and b, q > 0, by comparing the continued
\* fractions (no product is formed, so nothing overflows).
RECURSIVE FracGeq(_, _, _, _)
FracGeq(a, b, p, q) ==
    IF a \div b # p \div q THEN a \div b > p \div q
    ELSE IF p % q = 0 THEN TRUE
    ELSE IF a % b = 0 THEN FALSE
    ELSE FracGeq(q, p % q, b, a % b)

\* DataFrame.corr() for columns x and y: Pearson's r over the rows where both
\* are non-null (pairwise-complete observations), as cov / sqrt(den) with
\*   cov = n Sxy - Sx Sy,  den = (n Sxx - Sx^2) (n Syy - Sy^2),
\* the three factors divided by their greatest common divisor (which leaves r
\* as it is); nan when no row is complete or a variance is 0.
Corr(x, y) ==
    LET R == NonNullRows(x) \cap NonNullRows(y)
        n == Cardinality(R)
        Sx == SumOver(R, x.vals)
        Sy == SumOver(R, y.vals)
        Sxy == SumOver(R, [r \in R |-> x.vals[r] * y.vals[r]])
        Sxx == SumOver(R, [r \in R |-> x.vals[r] * x.vals[r]])
        Syy == SumOver(R, [r \in R |-> y.vals[r] * y.vals[r]])
        vx == n * Sxx - Sx * Sx
        vy == n * Syy - Sy * Sy
        cov == n * Sxy - Sx * Sy
        g == Gcd(Gcd(vx, vy), IF cov < 0 THEN -cov ELSE cov)
    IN  IF n = 0 \/ vx = 0 \/ vy = 0 THEN [nan |-> TRUE, cov |-> 0, den |-> 1]
        ELSE [nan |-> FALSE, cov |-> cov \div g,
              den |-> (vx \div g) * (vy \div g)]

\* NoMatrix without the test on the number of numeric columns
NoMatrixNever(k) == FALSE

\* len(numerical_data.columns) > 1 is false
NoMatrix(k) == ~(k > 1)

\* The matrix: pd.DataFrame() (empty) unless there are 2 or more numeric
\* columns, else one entry per ordered pair of numeric columns, labelled on
\* both axes by the numeric columns in table order.
calculate_correlation_matrix(d) ==
    LET nc == NumericCols(d)
        k == Len(nc)
    IN  IF ~NoMatrix(k)
        THEN [empty |-> FALSE,
              labels |-> [i \in 1 .. k |-> d.cols[nc[i]].name],
              m |-> [ij \in (1 .. k) \X (1 .. k) |->
                        Corr(d.cols[nc[ij[1]]], d.cols[nc[ij[2]]])]]
        ELSE [empty |-> TRUE, labels |-> <<>>, m |-> <<>>]

-----------------------------------------------------------------------------
(* DataAnalyzer.detect_data_patterns *)

ColsOfType(d, dtype) == SelectSeq([i \in 1 .. NCols(d) |-> i],
                                  LAMBDA i : d.cols[i].dtype = dtype)

NamesAt(d, pos) == [k \in 1 .. Len(pos) |-> d.cols[pos[k]].name]

\* col.lower() in ['id', 'index', 'key']
IdNames == {<<"i", "d">>, <<"i", "n", "d", "e", "x">>, <<"k", "e", "y">>}

\* IdName with every word of the list looked for inside the name
IdNameAnywhere(name) == \E w \in IdNames : Contains(Lower(name), w)

\* col.lower() in ['id', 'index', 'key'] or 'id' in col.lower()
IdName(name) == Lower(name) \in IdNames \/ Contains(Lower(name), <<"i", "d">>)

IsIdColumn(d, i) ==
    NUnique(d.cols[i]) = NRows(d) \/ IdName(d.cols[i].name)

\* The dict returned; a key the code leaves out is an empty list here.
detect_data_patterns(d) ==
    [time_series |-> NamesAt(d, ColsOfType(d, "datetime")),
     id_columns |-> NamesAt(d, SelectSeq([i \in 1 .. NCols(d) |-> i],
                                         LAMBDA i : IsIdColumn(d, i))),
     potential_categorical |->
         NamesAt(d, SelectSeq(NumericCols(d),
                              LAMBDA i : /\ NUnique(d.cols[i]) <= 10
                                         /\ NUnique(d.cols[i]) > 1))]

-----------------------------------------------------------------------------
(* DataAnalyzer.find_strong_correlations *)

DefaultThreshold == 700

\* The thresholds tried, in thousandths
Thresholds == {DefaultThreshold, 500}

Sq(x) == x * x

\* |r| = p / q exactly, for p >= 0 and q > 0
Equals(c, p, q) ==
    /\ FracGeq(Sq(c.cov), c.den, Sq(p), Sq(q))
    /\ FracGeq(Sq(p), Sq(q), Sq(c.cov), c.den)

\* The number of half-way points (2k - 1) / 2000, k in lo .. hi, that are
\* at or below |r|  (lo is one such, or 0)
RECURSIVE HalfSteps(_, _, _)
HalfSteps(c, lo, hi) ==
    IF lo = hi THEN lo
    ELSE LET mid == (lo + hi + 1) \div 2
         IN  IF FracGeq(Sq(c.cov), c.den, Sq(2 * mid - 1), 4000000)
             THEN HalfSteps(c, mid, hi)
             ELSE HalfSteps(c, lo, mid - 1)

\* |r| is half-way between two thousandths
HalfWay(c) ==
    LET k == HalfSteps(c, 0, 1000)
    IN  k > 0 /\ Equals(c, 2 * k - 1, 2000)

\* The matrix holds floats.  The float of a correlation is its exact value
\* or a neighbour of it, which of them depends on the order in which the
\* build of pandas sums (one pass or two): err is -1 for a float whose |r|
\* is just below the exact one, 0 for the exact one, 1 for one just above.
\* Only a comparison with a value that |r| is exactly equal to can tell.
FloatsOf == {-1, 0, 1}

\* abs(value) >= threshold, threshold in thousandths (0 .. 1000), on the
\* float
AbsAtLeast(c, threshold, err) ==
    /\ FracGeq(Sq(c.cov), c.den, Sq(threshold), 1000000)
    /\ FracGeq(Sq(threshold), 1000000, Sq(c.cov), c.den) => err >= 0

\* round(value, 3), in thousandths: numpy rounds x * 1000 to the nearest
\* integer, and a float that is exactly half-way to the even one
Round3(c, err) ==
    LET up == HalfSteps(c, 0, 1000)
        k == IF up = 0 \/ ~Equals(c, 2 * up - 1, 2000) \/ err > 0 THEN up
             ELSE IF err < 0 THEN up - 1
             ELSE IF up % 2 = 0 THEN up ELSE up - 1
    IN  IF c.cov < 0 THEN -k ELSE k

\* The triangle with the diagonal: np.triu(..., k=0)
UpperTriangleWithDiagonal(i, j) == i <= j

\* np.triu(np.ones(shape), k=1): row i, column j is kept iff i < j
UpperTriangle(i, j) == i < j

\* The place of the pair of columns i < j among the pairs, and the err of
\* the float that the matrix holds for columns i and j (corr() computes a
\* pair once and writes it on both sides of the diagonal)
PairNo(i, j) == ((j - 1) * (j - 2)) \div 2 + i

ErrOf(err, i, j) ==
    IF i < j THEN err[PairNo(i, j)]
    ELSE IF j < i THEN err[PairNo(j, i)]
    ELSE 0

\* upper_triangle.loc[idx, col] is a value to report
Qualifies(cm, i, j, threshold, err) ==
    /\ UpperTriangle(i, j)
    /\ ~cm.m[<<i, j>>].nan
    /\ AbsAtLeast(cm.m[<<i, j>>], threshold, ErrOf(err, i, j))

\* The cells in the order the loops visit them: for col (outer), for idx (inner)
Scan(k) == [n \in 1 .. k * k |-> <<((n - 1) % k) + 1, ((n - 1) \div k) + 1>>]

StrongEntry(cm, i, j, err) ==
    [var1 |-> cm.labels[i],
     var2 |-> cm.labels[j],
     correlation |-> Round3(cm.m[<<i, j>>], ErrOf(err, i, j)),
     strength |-> IF cm.m[<<i, j>>].cov > 0 THEN "Strong Positive"
                  ELSE "Strong Negative"]

\* strong_corr, the list the loops build
StrongList(cm, threshold, err) ==
    LET hits == SelectSeq(Scan(Len(cm.labels)),
                          LAMBDA ij : Qualifies(cm, ij[1], ij[2], threshold, err))
    IN  [n \in 1 .. Len(hits) |-> StrongEntry(cm, hits[n][1], hits[n][2], err)]

\* The outcome of the call.  pd.DataFrame([]) has no 'Correlation' column, so
\* sort_values raises KeyError when the list is empty.
find_strong_correlations(d, threshold, rank, err) ==
    LET cm == calculate_correlation_matrix(d)
        strong_corr == StrongList(cm, threshold, err)
    IN  IF cm.empty THEN [exc |-> "none", rows |-> <<>>]
        ELSE IF strong_corr = <<>> THEN [exc |-> "KeyError", rows |-> <<>>]
        ELSE [exc |-> "none",
              rows |-> SortDescending(strong_corr,
                           [n \in 1 .. Len(strong_corr) |->
                               Abs(strong_corr[n].correlation)], rank)]

-----------------------------------------------------------------------------
(* KPIGenerator (src/utils/kpi_generator.py).  A KPI is its name, its        *)
(* description and its bound calculation: the lambda, kept as the function   *)
(* it calls and the columns bound to it as default arguments.  The texts are *)
(* sequences of characters, as the column names are.                         *)

RECURSIVE Flatten(_)
Flatten(ss) == IF ss = <<>> THEN <<>> ELSE ss[1] \o Flatten(Tail(ss))

Kpi(name, description, fn, column, date_column) ==
    [name |-> name, description |-> description,
     calculation |-> [fn |-> fn, column |-> column, date_column |-> date_column]]

\* __init__: the columns by dtype, as names in table order
numerical_cols(d) == NamesAt(d, ColsOfType(d, "number"))

categorical_cols(d) == NamesAt(d, ColsOfType(d, "object"))

datetime_cols(d) == NamesAt(d, ColsOfType(d, "datetime"))

columns(d) == [i \in 1 .. NCols(d) |-> d.cols[i].name]

\* x in seq
In(x, seq) == \E i \in DOMAIN seq : seq[i] = x

\* any(keyword in col.lower() for keyword in keywords)
AnyKeyword(col, keywords) == \E keyword \in keywords : Contains(Lower(col), keyword)

\* The Range Ratio offered for a table of one record too
AnyRecords(d) == NRows(d) > 0

\* if len(self.data) > 1
MultipleRecords(d) == NRows(d) > 1

StatisticalFor(d, col) ==
    <<
    Kpi(<<"A", "v", "e", "r", "a", "g", "e", " ">> \o col,
        <<"A", "v", "e", "r", "a", "g", "e", " ", "v", "a", "l", "u", "e", 
        " ", "o", "f", " ">> \o col \o <<" ", "a", "c", "r", "o", "s", "s", " ",
        "a", "l", "l", " ", "r", "e", "c", "o", "r", "d", "s">>,
        "mean", col, <<>>),
    Kpi(col \o <<" ", "V", "a", "r", "i", "a", "b", "i", "l", "i", "t", "y", 
        " ", "I", "n", "d", "e", "x">>,
        <<"C", "o", "e", "f", "f", "i", "c", "i", "e", "n", "t", " ", "o",
        "f", " ", "v", "a", "r", "i", "a", "t", "i", "o", "n", " ", "f", "o",
        "r", " ">> \o col \o <<" ", "t", "o", " ", "m", "e", "a", "s", "u",
        "r", "e", " ", "r", "e", "l", "a", "t", "i", "v", "e", " ", "v", "a",
        "r", "i", "a", "b", "i", "l", "i", "t", "y">>,
        "variability", col, <<>>)>>
    \o (IF MultipleRecords(d)
        THEN <<
        Kpi(col \o <<" ", "R", "a", "n", "g", "e", " ", "R", "a", "t", "i",
            "o">>,
            <<"R", "a", "t", "i", "o", " ", "o", "f", " ", "m", "a", "x", "i",
            "m", "u", "m", " ", "t", "o", " ", "m", "i", "n", "i", "m", "u",
            "m", " ", "v", "a", "l", "u", "e", "s", " ", "i", "n", " ">> \o
            col,
            "range_ratio", col, <<>>)>>
        ELSE <<>>)

_generate_statistical_kpis(d) ==
    Flatten([k \in DOMAIN numerical_cols(d) |->
                StatisticalFor(d, numerical_cols(d)[k])])

DiversityFor(col) ==
    Kpi(col \o <<" ", "D", "i", "v", "e", "r", "s", "i", "t", "y", " ", "I",
        "n", "d", "e", "x">>,
        <<"R", "a", "t", "i", "o", " ", "o", "f", " ", "u", "n", "i", "q",
        "u", "e", " ", "v", "a", "l", "u", "e", "s", " ", "t", "o", " ", "t",
        "o", "t", "a", "l", " ", "v", "a", "l", "u", "e", "s", " ", "i", "n",
        " ">> \o col,
        "diversity", col, <<>>)

_generate_performance_kpis(d) ==
    <<
    Kpi(<<"D", "a", "t", "a", " ", "V", "o", "l", "u", "m", "e", " ", "I",
        "n", "d", "e", "x">>,
        <<"T", "o", "t", "a", "l", " ", "n", "u", "m", "b", "e", "r", " ",
        "o", "f", " ", "r", "e", "c", "o", "r", "d", "s", " ", "i", "n", " ",
        "t", "h", "e", " ", "d", "a", "t", "a", "s", "e", "t">>,
        "volume", <<>>, <<>>),
    Kpi(<<"D", "a", "t", "a", " ", "D", "e", "n", "s", "i", "t", "y", " ",
        "S", "c", "o", "r", "e">>,
        <<"P", "e", "r", "c", "e", "n", "t", "a", "g", "e", " ", "o", "f", 
        " ", "n", "o", "n", "-", "n", "u", "l", "l", " ", "v", "a", "l", "u",
        "e", "s", " ", "a", "c", "r", "o", "s", "s", " ", "a", "l", "l", " ",
        "f", "i", "e", "l", "d", "s">>,
        "density", <<>>, <<>>)>>
    \o [k \in DOMAIN categorical_cols(d) |-> DiversityFor(categorical_cols(d)[k])]

_generate_quality_kpis(d) ==
    <<
    Kpi(<<"D", "a", "t", "a", " ", "C", "o", "m", "p", "l", "e", "t", "e",
        "n", "e", "s", "s", " ", "R", "a", "t", "e">>,
        <<"P", "e", "r", "c", "e", "n", "t", "a", "g", "e", " ", "o", "f", 
        " ", "c", "o", "m", "p", "l", "e", "t", "e", " ", "r", "e", "c", "o",
        "r", "d", "s", " ", "(", "n", "o", " ", "m", "i", "s", "s", "i", "n",
        "g", " ", "v", "a", "l", "u", "e", "s", ")">>,
        "completeness", <<>>, <<>>),
    Kpi(<<"D", "a", "t", "a", " ", "U", "n", "i", "q", "u", "e", "n", "e",
        "s", "s", " ", "R", "a", "t", "e">>,
        <<"P", "e", "r", "c", "e", "n", "t", "a", "g", "e", " ", "o", "f", 
        " ", "u", "n", "i", "q", "u", "e", " ", "r", "e", "c", "o", "r", "d",
        "s", " ", "i", "n", " ", "t", "h", "e", " ", "d", "a", "t", "a", "s",
        "e", "t">>,
        "uniqueness", <<>>, <<>>)>>
    \o (IF numerical_cols(d) # <<>>
        THEN <<
        Kpi(<<"N", "u", "m", "e", "r", "i", "c", "a", "l", " ", "D", "a", "t",
            "a", " ", "C", "o", "n", "s", "i", "s", "t", "e", "n", "c", "y", 
            " ", "S", "c", "o", "r", "e">>,
            <<"A", "v", "e", "r", "a", "g", "e", " ", "c", "o", "e", "f", "f",
            "i", "c", "i", "e", "n", "t", " ", "o", "f", " ", "v", "a", "r",
            "i", "a", "t", "i", "o", "n", " ", "a", "c", "r", "o", "s", "s", 
            " ", "a", "l", "l", " ", "n", "u", "m", "e", "r", "i", "c", "a",
            "l", " ", "c", "o", "l", "u", "m", "n", "s">>,
            "consistency", <<>>, <<>>)>>
        ELSE <<>>)

TimeFor(col) ==
    <<
    Kpi(col \o <<" ", "T", "i", "m", "e", " ", "S", "p", "a", "n">>,
        <<"T", "o", "t", "a", "l", " ", "t", "i", "m", "e", " ", "p", "e",
        "r", "i", "o", "d", " ", "c", "o", "v", "e", "r", "e", "d", " ", "b",
        "y", " ">> \o col,
        "time_span", col, <<>>),
    Kpi(col \o <<" ", "D", "a", "t", "a", " ", "F", "r", "e", "q", "u", "e",
        "n", "c", "y">>,
        <<"A", "v", "e", "r", "a", "g", "e", " ", "n", "u", "m", "b", "e",
        "r", " ", "o", "f", " ", "r", "e", "c", "o", "r", "d", "s", " ", "p",
        "e", "r", " ", "d", "a", "y", " ", "i", "n", " ">> \o col,
        "frequency", col, <<>>)>>

GrowthFor(num_col, date_col) ==
    Kpi(num_col \o <<" ", "G", "r", "o", "w", "t", "h", " ", "R", "a", "t",
        "e">>,
        <<"A", "v", "e", "r", "a", "g", "e", " ", "c", "h", "a", "n", "g",
        "e", " ", "i", "n", " ">> \o num_col \o <<" ", "o", "v", "e", "r", 
        " ", "t", "i", "m", "e", " ", "p", "e", "r", "i", "o", "d", " ", "i",
        "n", " ">> \o date_col,
        "growth_rate", num_col, date_col)

\* The two loops over the datetime columns, then for num_col (outer), for
\* date_col (inner)
_generate_time_based_kpis(d) ==
    LET nums == numerical_cols(d)
        dates == datetime_cols(d)
    IN  Flatten([k \in DOMAIN dates |-> TimeFor(dates[k])])
        \o Flatten([i \in DOMAIN nums |->
                       [j \in DOMAIN dates |-> GrowthFor(nums[i], dates[j])]])

RevenueKeywords ==
    {<<"r", "e", "v", "e", "n", "u", "e">>,
     <<"s", "a", "l", "e", "s">>,
     <<"i", "n", "c", "o", "m", "e">>,
     <<"a", "m", "o", "u", "n", "t">>,
     <<"v", "a", "l", "u", "e">>,
     <<"p", "r", "i", "c", "e">>}

CountKeywords ==
    {<<"c", "o", "u", "n", "t">>,
     <<"q", "u", "a", "n", "t", "i", "t", "y">>,
     <<"q", "t", "y">>,
     <<"n", "u", "m", "b", "e", "r">>,
     <<"n", "u", "m">>}

CustomerKeywords ==
    {<<"c", "u", "s", "t", "o", "m", "e", "r">>,
     <<"u", "s", "e", "r">>,
     <<"c", "l", "i", "e", "n", "t">>,
     <<"m", "e", "m", "b", "e", "r">>}

StatusKeywords ==
    {<<"s", "t", "a", "t", "u", "s">>,
     <<"r", "e", "s", "u", "l", "t">>,
     <<"o", "u", "t", "c", "o", "m", "e">>}

\* A total named without its column
TotalUnnamed(col) ==
    Kpi(<<"T", "o", "t", "a", "l">>,
        <<"S", "u", "m", " ", "o", "f", " ", "a", "l", "l", " ">> \o col \o
        <<" ", "v", "a", "l", "u", "e", "s">>,
        "sum", col, <<>>)

\* 'name': f'Total {col}', 'calculation': data[column].sum()
TotalKpi(col) ==
    Kpi(<<"T", "o", "t", "a", "l", " ">> \o col,
        <<"S", "u", "m", " ", "o", "f", " ", "a", "l", "l", " ">> \o col \o
        <<" ", "v", "a", "l", "u", "e", "s">>,
        "sum", col, <<>>)

RevenueFor(col) ==
    <<TotalKpi(col),
    Kpi(<<"A", "v", "e", "r", "a", "g", "e", " ">> \o col \o <<" ", "p", "e",
        "r", " ", "R", "e", "c", "o", "r", "d">>,
        <<"A", "v", "e", "r", "a", "g", "e", " ">> \o col \o <<" ", "v", "a",
        "l", "u", "e", " ", "p", "e", "r", " ", "t", "r", "a", "n", "s", "a",
        "c", "t", "i", "o", "n", "/", "r", "e", "c", "o", "r", "d">>,
        "mean", col, <<>>)>>

\* The columns of cols whose name has one of the keywords, in the order of cols
Matching(cols, keywords) == SelectSeq(cols, LAMBDA col : AnyKeyword(col, keywords))

\* IsNumerical taken as true of every column
IsAnyColumn(d, col) == TRUE

\* col in self.numerical_cols
IsNumerical(d, col) == In(col, numerical_cols(d))

\* Bound without the [0]: one KPI per matching column
BoundToEach(cols) == cols

\* cols[0] if cols: the KPI is bound to the first matching column only
BoundToFirst(cols) == IF cols = <<>> THEN <<>> ELSE <<cols[1]>>

CustomerKpi(col) ==
    Kpi(<<"C", "u", "s", "t", "o", "m", "e", "r", "/", "U", "s", "e", "r", 
        " ", "D", "i", "v", "e", "r", "s", "i", "t", "y">>,
        <<"N", "u", "m", "b", "e", "r", " ", "o", "f", " ", "u", "n", "i",
        "q", "u", "e", " ", "c", "u", "s", "t", "o", "m", "e", "r", "s", "/",
        "u", "s", "e", "r", "s", " ", "i", "n", " ", "t", "h", "e", " ", "d",
        "a", "t", "a", "s", "e", "t">>,
        "nunique", col, <<>>)

SuccessKpi(col) ==
    Kpi(col \o <<" ", "S", "u", "c", "c", "e", "s", "s", " ", "R", "a", "t",
        "e">>,
        <<"P", "e", "r", "c", "e", "n", "t", "a", "g", "e", " ", "o", "f", 
        " ", "s", "u", "c", "c", "e", "s", "s", "f", "u", "l", " ", "o", "u",
        "t", "c", "o", "m", "e", "s", " ", "i", "n", " ">> \o col,
        "success_rate", col, <<>>)

_generate_business_kpis(d) ==
    LET revenue_cols == SelectSeq(Matching(columns(d), RevenueKeywords),
                                  LAMBDA col : IsNumerical(d, col))
        count_cols == SelectSeq(Matching(columns(d), CountKeywords),
                                LAMBDA col : IsNumerical(d, col))
        customer_cols == BoundToFirst(Matching(columns(d), CustomerKeywords))
        status_cols == BoundToFirst(Matching(categorical_cols(d), StatusKeywords))
    IN  Flatten([k \in DOMAIN revenue_cols |-> RevenueFor(revenue_cols[k])])
        \o [k \in DOMAIN count_cols |-> TotalKpi(count_cols[k])]
        \o [k \in DOMAIN customer_cols |-> CustomerKpi(customer_cols[k])]
        \o [k \in DOMAIN status_cols |-> SuccessKpi(status_cols[k])]

\* The categories without the tests on the numeric and datetime columns
AlwaysProduced(cols) == TRUE

\* if self.numerical_cols: / if self.datetime_cols:
Produced(cols) == cols # <<>>

\* The dict returned, as the list of its items in insertion order
generate_kpi_suggestions(d) ==
    (IF Produced(numerical_cols(d))
     THEN <<[category |-> "Statistical KPIs", kpis |-> _generate_statistical_kpis(d)]>>
     ELSE <<>>)
    \o <<[category |-> "Performance KPIs", kpis |-> _generate_performance_kpis(d)],
         [category |-> "Data Quality KPIs", kpis |-> _generate_quality_kpis(d)]>>
    \o (IF Produced(datetime_cols(d))
        THEN <<[category |-> "Time-based KPIs", kpis |-> _generate_time_based_kpis(d)]>>
        ELSE <<>>)
    \o <<[category |-> "Business KPIs", kpis |-> _generate_business_kpis(d)]>>

-----------------------------------------------------------------------------
(* The calculations bound to the KPIs.  A result is None, an exception       *)
(* raised, nan, or the number  scale * (t1 + ... + tk) / count  where a term *)
(* t is num / den, or sqrt(num / den) if root; type is its Python type       *)
(* (numpy.float64 is a float, numpy.int64 is not an int).                    *)

Term(num, den, root) == [num |-> num, den |-> den, root |-> root]

Number(type, scale, terms, count) ==
    [kind |-> "num", type |-> type, scale |-> scale, terms |-> terms,
     count |-> count]

Ratio(type, scale, num, den) == Number(type, scale, <<Term(num, den, FALSE)>>, 1)

PyInt(v) == Ratio("int", 1, v, 1)

NoneResult == [kind |-> "none", type |-> "NoneType", scale |-> 1,
               terms |-> <<>>, count |-> 1]

NanResult == [kind |-> "nan", type |-> "float", scale |-> 1,
              terms |-> <<>>, count |-> 1]

Raised(exception) == [kind |-> "raise", type |-> exception, scale |-> 1,
                      terms |-> <<>>, count |-> 1]

\* data[column]
ColumnOf(d, column) ==
    d.cols[CHOOSE i \in 1 .. NCols(d) : d.cols[i].name = column]

SumSquares(v) == SumSeq([i \in DOMAIN v |-> v[i] * v[i]])

Smallest(v) == CHOOSE x \in Range(v) : \A y \in Range(v) : x <= y

Largest(v) == CHOOSE x \in Range(v) : \A y \in Range(v) : x >= y

\* data[column].mean(): nan when there is no non-null value
Mean(c) ==
    LET v == NonNullVals(c)
    IN  IF v = <<>> THEN NanResult
        ELSE Ratio("float", 1, SumSeq(v), Len(v))

\* std() / mean() for a mean that is neither 0 nor nan: the sample standard
\* deviation (ddof = 1) is nan for fewer than 2 values, else
\*   std / mean = sqrt(n (n Sxx - S^2) / ((n - 1) S^2))
StdOverMean(c) ==
    LET v == NonNullVals(c)
        n == Len(v)
        S == SumSeq(v)
    IN  IF n < 2 THEN <<>>
        ELSE <<Term(n * (n * SumSquares(v) - S * S), (n - 1) * S * S, TRUE)>>

\* The test of the mean without `mean() != 0`
MeanNotNan(c) == NonNullVals(c) # <<>>

\* mean() != 0 and not pd.isna(mean())
MeanUsable(c) == NonNullVals(c) # <<>> /\ SumSeq(NonNullVals(c)) # 0

Variability(c) ==
    IF ~MeanUsable(c) THEN NoneResult
    ELSE IF StdOverMean(c) = <<>> THEN NanResult
    ELSE Number("float", 100, StdOverMean(c), 1)

RangeRatio(c) ==
    LET v == NonNullVals(c)
    IN  IF v = <<>> \/ Smallest(v) = 0 THEN NoneResult
        ELSE Ratio("float", 1, Largest(v), Smallest(v))

\* A density of the records: the rows without a null over the rows
DensityOfRows(d) ==
    Ratio("float", 100,
          Cardinality({r \in 1 .. NRows(d) : \A i \in 1 .. NCols(d) :
                          ~IsNull(d.cols[i].vals[r])}),
          IF NRows(d) = 0 THEN 1 ELSE NRows(d))

\* (data.count().sum() / (data.shape[0] * data.shape[1])) * 100: a numpy
\* integer divided by 0 is nan, not an exception
Density(d) ==
    LET cells == NRows(d) * NCols(d)
    IN  IF cells = 0 THEN NanResult
        ELSE Ratio("float", 100, cells - MissingCells(d), cells)

\* data[column].nunique() / len(data): Python integers, so 0 rows raise
Diversity(d, c) ==
    IF NRows(d) = 0 THEN Raised("ZeroDivisionError")
    ELSE Ratio("float", 1, NUnique(c), NRows(d))

\* (len(data.dropna()) / len(data)) * 100: Python integers
Completeness(d) ==
    IF NRows(d) = 0 THEN Raised("ZeroDivisionError")
    ELSE Ratio("float", 100,
               Cardinality({r \in 1 .. NRows(d) :
                               \A i \in 1 .. NCols(d) : ~IsNull(d.cols[i].vals[r])}),
               NRows(d))

\* ((len(data) - data.duplicated().sum()) / len(data)) * 100: the numerator is
\* a numpy integer
Uniqueness(d) ==
    IF NRows(d) = 0 THEN NanResult
    ELSE Ratio("float", 100, NRows(d) - DuplicateRows(d), NRows(d))

\* The columns averaged if those without a usable mean were left out
AveragedUsable(d) ==
    Len(SelectSeq(NumericCols(d), LAMBDA i : MeanUsable(d.cols[i])))

\* The length of the list np.mean averages: one entry per numeric column
Averaged(d) == Len(NumericCols(d))

\* np.mean([std / mean if the mean is usable else 0, for the numeric columns])
Consistency(d) ==
    LET nc == NumericCols(d)
        undefined(i) == MeanUsable(d.cols[i]) /\ StdOverMean(d.cols[i]) = <<>>
        term(i) == IF MeanUsable(d.cols[i]) THEN StdOverMean(d.cols[i])
                   ELSE <<Term(0, 1, FALSE)>>
    IN  IF nc = <<>> THEN NoneResult
        ELSE IF \E k \in DOMAIN nc : undefined(nc[k]) THEN NanResult
        ELSE Number("float", 1, Flatten([k \in DOMAIN nc |-> term(nc[k])]),
                    Averaged(d))

\* (max() - min()).days, None if the column has no date
TimeSpan(c) ==
    LET v == NonNullVals(c)
    IN  IF v = <<>> THEN NoneResult ELSE PyInt(Largest(v) - Smallest(v))

\* len(data) / max(1, (max() - min()).days)
Frequency(d, c) ==
    LET v == NonNullVals(c)
        days == Largest(v) - Smallest(v)
    IN  IF v = <<>> THEN NoneResult
        ELSE Ratio("float", 1, NRows(d), IF days > 1 THEN days ELSE 1)

\* The rows left in table order
TableOrder(d, date, rank) == [i \in 1 .. NRows(d) |-> i]

\* data.sort_values(date_column): the rows by date ascending, the rows
\* without a date last in table order, equal dates in the build's order.
SortedRows(d, date, rank) ==
    LET n == NRows(d)
        before(r, q) ==
            IF IsNull(date.vals[r]) \/ IsNull(date.vals[q])
            THEN \/ ~IsNull(date.vals[r]) /\ IsNull(date.vals[q])
                 \/ IsNull(date.vals[r]) /\ IsNull(date.vals[q]) /\ r < q
            ELSE \/ date.vals[r] < date.vals[q]
                 \/ date.vals[r] = date.vals[q] /\ rank[r] < rank[q]
    IN  CHOOSE p \in PermSeqs(1 .. n) :
            \A i \in 1 .. n - 1 : before(p[i], p[i + 1])

\* _calculate_growth_rate: iloc[0] of no rows raises IndexError, which the
\* bare except turns into None.
_calculate_growth_rate(d, num, date, rank) ==
    IF NRows(d) = 0 THEN NoneResult
    ELSE LET sorted == SortedRows(d, date, rank)
             first_value == num.vals[sorted[1]]
             last_value == num.vals[sorted[NRows(d)]]
         IN  IF first_value # 0 /\ ~IsNull(first_value) /\ ~IsNull(last_value)
             THEN Ratio("float", 100, last_value - first_value, first_value)
             ELSE NoneResult

\* data[column].sum(): 0 for no value; an integer column has no null
Sum(c) ==
    Ratio(IF MissingCount(c) = 0 THEN "int64" ELSE "float", 1,
          SumSeq(NonNullVals(c)), 1)

\* The values of a text column, as str(value) gives them
Vocabulary == <<<<"f", "a", "i", "l", "e", "d">>,
                <<"s", "u", "c", "c", "e", "s", "s">>,
                <<"C", "o", "m", "p", "l", "e", "t", "e">>,
                <<"n", "o">>,
                <<"1">>,
                <<"T", "R", "U", "E">>>>

Str(v) == Vocabulary[v + 1]

success_keywords ==
    {<<"s", "u", "c", "c", "e", "s", "s">>,
     <<"c", "o", "m", "p", "l", "e", "t", "e">>,
     <<"a", "p", "p", "r", "o", "v", "e", "d">>,
     <<"y", "e", "s">>,
     <<"t", "r", "u", "e">>,
     <<"1">>,
     <<"a", "c", "t", "i", "v", "e">>,
     <<"c", "o", "n", "f", "i", "r", "m", "e", "d">>}

\* IsSuccess without .lower()
IsSuccessAsWritten(value) == Str(value) \in success_keywords

\* str(value).lower() in success_keywords
IsSuccess(value) == Lower(Str(value)) \in success_keywords

\* _calculate_success_rate: the integer 0 for no non-null value, else
\* (success_count / total_count) * 100
_calculate_success_rate(c) ==
    LET v == NonNullVals(c)
        total_count == Len(v)
        success_count == Len(SelectSeq(v, IsSuccess))
    IN  IF total_count = 0 THEN PyInt(0)
        ELSE Ratio("float", 100, success_count, total_count)

\* kpi['calculation'](data)
Calculate(kpi, d, rank) ==
    LET fn == kpi.calculation.fn
        c == ColumnOf(d, kpi.calculation.column)
    IN  CASE fn = "mean" -> Mean(c)
          [] fn = "variability" -> Variability(c)
          [] fn = "range_ratio" -> RangeRatio(c)
          [] fn = "volume" -> PyInt(NRows(d))
          [] fn = "density" -> Density(d)
          [] fn = "diversity" -> Diversity(d, c)
          [] fn = "completeness" -> Completeness(d)
          [] fn = "uniqueness" -> Uniqueness(d)
          [] fn = "consistency" -> Consistency(d)
          [] fn = "time_span" -> TimeSpan(c)
          [] fn = "frequency" -> Frequency(d, c)
          [] fn = "growth_rate" ->
                 _calculate_growth_rate(d, c, ColumnOf(d, kpi.calculation.date_column),
                                        rank)
          [] fn = "sum" -> Sum(c)
          [] fn = "nunique" -> PyInt(NUnique(c))
          [] fn = "success_rate" -> _calculate_success_rate(c)

-----------------------------------------------------------------------------
(* The KPI display of app.py (tab "KPI Recommendations") *)

\* One KPI as the page shows it: st.metric with f"{result:.2f}" for a Python
\* int or float, with str(result) for anything else, and the warning
\* 'Calculation unavailable' when the calculation raised.
Shown(kpi, result) ==
    [kpi |-> kpi,
     shown |-> IF result.kind = "raise" THEN "Calculation unavailable"
               ELSE IF result.type \in {"int", "float"} THEN "fixed2"
               ELSE "str",
     result |-> result]

\* for kpi in kpis: try: ... except Exception: st.warning(...)
ShowEach(kpis, d, rank) ==
    [k \in DOMAIN kpis |-> Shown(kpis[k], Calculate(kpis[k], d, rank))]

\* for category, kpis in kpi_suggestions.items(): ... when the loops run to
\* their end
display_kpis(d, rank) ==
    LET kpi_suggestions == generate_kpi_suggestions(d)
    IN  [k \in DOMAIN kpi_suggestions |->
            [category |-> kpi_suggestions[k].category,
             kpis |-> ShowEach(kpi_suggestions[k].kpis, d, rank)]]

\* Where the loops end.  Every KPI is drawn by st calls (st.expander,
\* st.columns, st.markdown before its calculation, st.metric or st.warning
\* after it), each a point where Streamlit ends the run with an exception
\* that `except Exception` does not catch, before the element is drawn.  The
\* run ends under the header of a category with `shown` of its KPIs drawn
\* with their values; the loops that run to their end stop after the last
\* KPI of the last category.
DisplayStop(display, stop) ==
    /\ stop.category \in DOMAIN display
    /\ stop.shown \in 0 .. Len(display[stop.category].kpis)

\* The loops ran to their end
Completed(display, stop) ==
    /\ stop.category = Len(display)
    /\ stop.shown = Len(display[stop.category].kpis)

\* What the page shows of the display when the run ends at stop
ShownBefore(display, stop) ==
    [k \in 1 .. stop.category |->
        IF k < stop.category THEN display[k]
        ELSE [category |-> display[k].category,
              kpis |-> SubSeq(display[k].kpis, 1, stop.shown)]]

\* The numbers of calculations of its category made by a run that ends at
\* stop: the ones shown, and the next one if the run ends in the st.metric
\* or st.warning that follows it
Evaluations(display, stop) ==
    {e \in {stop.shown, stop.shown + 1} :
        e <= Len(display[stop.category].kpis)}

\* A growth rate is among the calculations made, e of them in the category
\* of stop
GrowthCalculated(display, stop, e) ==
    \E k \in 1 .. stop.category :
        \E j \in DOMAIN display[k].kpis :
            /\ k = stop.category => j <= e
            /\ display[k].kpis[j].kpi.calculation.fn = "growth_rate"

-----------------------------------------------------------------------------
(* DataAnalyzer.get_basic_info and generate_analysis_report of app.py.  The  *)
(* report is the list of its lines; a line is the fixed text it starts with  *)
(* (tag) and what is formatted into it.                                      *)

\* memory_usage(deep=True).sum(): the index, 8 bytes per cell, and for a text
\* column the objects the cells point to
ObjectBytes(v) == IF IsNull(v) THEN 24 ELSE 49 + Len(Str(v))

ColumnBytes(c) ==
    8 * Len(c.vals)
    + (IF c.dtype = "object"
       THEN SumSeq([r \in DOMAIN c.vals |-> ObjectBytes(c.vals[r])])
       ELSE 0)

MemoryBytes(d) == 132 + SumSeq([i \in 1 .. NCols(d) |-> ColumnBytes(d.cols[i])])

\* The dict returned; "Memory Usage (MB)" is round(bytes / 1024 / 1024, 2), in
\* hundredths
get_basic_info(d) ==
    [rows |-> NRows(d),
     columns |-> NCols(d),
     memory_mb |-> RoundHalfEven(MemoryBytes(d) * 100, 1024 * 1024),
     numerical |-> Len(ColsOfType(d, "number")),
     categorical |-> Len(ColsOfType(d, "object")),
     datetime |-> Len(ColsOfType(d, "datetime"))]

Line(tag, name, text, value) ==
    [tag |-> tag, name |-> name, text |-> text, value |-> value]

Text(tag) == Line(tag, <<>>, <<>>, <<>>)

\* pd.Timestamp.now().strftime('%Y-%m-%d %H:%M:%S'): the second of the call
Header(now) ==
    <<Text("="), Text("EXCEL DATA ANALYSIS REPORT"), Text("="),
      Line("Generated on: ", <<>>, <<>>, <<now>>), Text("")>>

BasicSection(d) ==
    LET basic_info == get_basic_info(d)
    IN  <<Text("1. BASIC INFORMATION"), Text("-"),
          Line("Total Rows: ", <<>>, <<>>, <<basic_info.rows>>),
          Line("Total Columns: ", <<>>, <<>>, <<basic_info.columns>>),
          Line("Memory Usage (MB): ", <<>>, <<>>, <<basic_info.memory_mb>>),
          Line("Numerical Columns: ", <<>>, <<>>, <<basic_info.numerical>>),
          Line("Categorical Columns: ", <<>>, <<>>, <<basic_info.categorical>>),
          Line("DateTime Columns: ", <<>>, <<>>, <<basic_info.datetime>>),
          Text("")>>

QualitySection(d) ==
    LET quality_metrics == get_data_quality_metrics(d)
    IN  <<Text("2. DATA QUALITY METRICS"), Text("-"),
          Line("Total Cells: ", <<>>, <<>>, <<quality_metrics.total_cells>>),
          Line("Missing Cells: ", <<>>, <<>>, <<quality_metrics.missing_cells>>),
          Line("Missing Percentage: ", <<>>, <<>>, <<quality_metrics.missing_pct>>),
          Line("Duplicate Rows: ", <<>>, <<>>, <<quality_metrics.duplicate_rows>>),
          Line("Duplicate Percentage: ", <<>>, <<>>,
               <<quality_metrics.duplicate_pct>>),
          Line("Data Completeness: ", <<>>, <<>>, <<quality_metrics.completeness>>),
          Text("")>>

\* f"{idx}: {row['Missing_Count']} missing ({row['Missing_Percentage']:.2f}%)":
\* the percentage rounded to hundredths
MissingSection(d, rank) ==
    LET missing_data == analyze_missing_values(d, rank)
    IN  <<Text("3. MISSING VALUES ANALYSIS"), Text("-")>>
        \o (IF missing_data # <<>>
            THEN [k \in DOMAIN missing_data |->
                     Line(" missing", missing_data[k].col, <<>>,
                          <<missing_data[k].count,
                            Format2f(missing_data[k].count,
                                     missing_data[k].pct_den)>>)]
            ELSE <<Text("No missing values found.")>>)
        \o <<Text("")>>

\* category.upper()
Upper(category) ==
    CASE category = "Statistical KPIs" -> "STATISTICAL KPIS"
      [] category = "Performance KPIs" -> "PERFORMANCE KPIS"
      [] category = "Data Quality KPIs" -> "DATA QUALITY KPIS"
      [] category = "Time-based KPIs" -> "TIME-BASED KPIS"
      [] category = "Business KPIs" -> "BUSINESS KPIS"

KpiLines(item) ==
    <<Text(Upper(item.category))>>
    \o [k \in DOMAIN item.kpis |->
           Line("kpi", item.kpis[k].name, item.kpis[k].description, <<>>)]

KpiSection(d) ==
    LET kpi_suggestions == generate_kpi_suggestions(d)
    IN  <<Text("4. KPI RECOMMENDATIONS"), Text("-")>>
        \o Flatten([k \in DOMAIN kpi_suggestions |-> KpiLines(kpi_suggestions[k])])

\* Sections with the KPI section moved to the front
SectionsKpiFirst(basic, quality, missing, kpi) ==
    kpi \o basic \o quality \o missing

\* The order in which the sections are appended
Sections(basic, quality, missing, kpi) == basic \o quality \o missing \o kpi

generate_analysis_report(d, rank, now) ==
    Header(now)
    \o Sections(BasicSection(d), QualitySection(d), MissingSection(d, rank),
                KpiSection(d))

-----------------------------------------------------------------------------
(* The tables *)

Column(i, dtype, vals) == [name |-> ColNames[i], dtype |-> dtype, vals |-> vals]

\* A table of n rows whose columns have the dtypes dt and the values vs.
Table(n, dt, vs) ==
    [nrows |-> n, cols |-> [i \in DOMAIN dt |-> Column(i, dt[i], vs[i])]]

\* pd.DataFrame(): no rows, no columns
EmptyTable == Table(0, <<>>, <<>>)

\* The dtypes of the columns of the small tables, in table order
SmallSchemas == {<<>>, <<"number">>, <<"object">>, <<"number", "number">>,
                 <<"number", "object">>, <<"object", "number">>}

\* data is a table of at most MaxRows rows over Cells with one of the
\* SmallSchemas (EmptyTable for the schema without columns).
SmallTable ==
    \E dt \in SmallSchemas, n \in 0 .. MaxRows :
        /\ dt = <<>> => n = 0
        /\ \E vs \in [DOMAIN dt -> [1 .. n -> Cells]] : data = Table(n, dt, vs)

\* Tables long enough for a value to lie outside the fences or more than 3
\* standard deviations from the mean: n rows, a first numeric column that is
\* all 0 or 1, 2, ..., n with row p (if p > 0) and the last row (if last)
\* replaced by a value of Edits, and a second numeric column 1, 2, ..., n.
Edits == {NaN, 0, 100}

LongBases == {"zeros", "ramp"}

LongLens == {4, 6, LongRows - 1, LongRows}

LongVals(n, base, p, u, last, w) ==
    [r \in 1 .. n |-> IF last /\ r = n THEN w
                      ELSE IF r = p THEN u
                      ELSE IF base = "ramp" THEN r ELSE 0]

LongTable ==
    \E n \in LongLens, base \in LongBases :
      \E p \in 0 .. n, last \in BOOLEAN, u \in Edits, w \in Edits :
        data = Table(n, <<"number", "number">>,
                     <<LongVals(n, base, p, u, last, w), [r \in 1 .. n |-> r]>>)

\* Tables of three numeric columns of three rows, each column one of Pool:
\* their pairs correlate perfectly, partly, negatively or not at all.
Pool == {<<0, 1, 2>>, <<2, 1, 0>>, <<0, 2, 1>>, <<0, 0, 1>>, <<1, 1, 1>>,
         <<0, 1, NaN>>}

PoolTable ==
    \E vs \in [1 .. 3 -> Pool] :
        data = Table(3, <<"number", "number", "number">>, vs)

\* Tables of two numeric columns whose correlation, 9/16 or -9/16, is
\* half-way between two thousandths
HalfWayVals == {<<0, 2, 1, 2, 2>>, <<2, 0, 1, 0, 0>>}

HalfWayTable ==
    \E v \in HalfWayVals :
        data = Table(5, <<"number", "number">>,
                     [i \in 1 .. 2 |-> IF i = 1 THEN <<0, 0, 0, 1, 2>> ELSE v])

\* Tables of one numeric column of nine equal values and another one: the
\* z of the last is exactly 3, and mean and deviation are no doubles
BoundaryVals == {[r \in 1 .. 10 |-> IF r < 10 THEN 5 ELSE 6],
                 [r \in 1 .. 10 |-> IF r < 10 THEN 0 ELSE 7]}

BoundaryTable ==
    \E v \in BoundaryVals : data = Table(10, <<"number">>, <<v>>)

\* Tables of one numeric column with so many rows, and so many of them
\* null, that a percentage is half-way between two hundredths
PercentRows == 160

PercentNulls == {23, 49}

PercentTable ==
    \E k \in PercentNulls :
        data = Table(PercentRows, <<"number">>,
                     <<[r \in 1 .. PercentRows |->
                          IF r <= PercentRows - k THEN r ELSE NaN]>>)

\* Tables whose column names and dtypes are the ones the name-driven rules
\* look at: identifier names, revenue, count, customer and status names,
\* datetime columns, and names that hold the words of a KPI name.
NamedSchemas == {
    <<[name |-> <<"s", "a", "l", "e", "_", "a", "m", "o", "u", "n", "t">>,
       dtype |-> "number"],
      [name |-> <<"s", "t", "a", "t", "u", "s">>,
       dtype |-> "object"]>>,
    <<[name |-> <<"p", "r", "i", "c", "e">>,
       dtype |-> "number"],
      [name |-> <<"q", "t", "y">>,
       dtype |-> "number"],
      [name |-> <<"s", "a", "l", "e", "_", "a", "m", "o", "u", "n", "t">>,
       dtype |-> "number"]>>,
    <<[name |-> <<"i", "d">>,
       dtype |-> "number"],
      [name |-> <<"C", "u", "s", "t", "o", "m", "e", "r">>,
       dtype |-> "object"],
      [name |-> <<"r", "e", "s", "u", "l", "t">>,
       dtype |-> "object"]>>,
    <<[name |-> <<"k", "e", "y", "_", "c", "o", "d", "e">>,
       dtype |-> "object"],
      [name |-> <<"I", "n", "d", "e", "x">>,
       dtype |-> "object"]>>,
    <<[name |-> <<"o", "r", "d", "e", "r", "_", "d", "a", "t", "e">>,
       dtype |-> "datetime"],
      [name |-> <<"s", "a", "l", "e", "s", "_", "c", "o", "u", "n", "t">>,
       dtype |-> "number"]>>,
    <<[name |-> <<"o", "r", "d", "e", "r", "_", "d", "a", "t", "e">>,
       dtype |-> "datetime"],
      [name |-> <<"s", "h", "i", "p", "p", "e", "d">>,
       dtype |-> "datetime"],
      [name |-> <<"s", "a", "l", "e", "s", "_", "c", "o", "u", "n", "t">>,
       dtype |-> "number"]>>,
    <<[name |-> <<"u", "s", "e", "r", "_", "i", "d">>,
       dtype |-> "number"],
      [name |-> <<"C", "u", "s", "t", "o", "m", "e", "r">>,
       dtype |-> "object"]>>,
    <<[name |-> <<"o", "u", "t", "c", "o", "m", "e">>,
       dtype |-> "number"],
      [name |-> <<"r", "e", "s", "u", "l", "t">>,
       dtype |-> "object"],
      [name |-> <<"s", "t", "a", "t", "u", "s">>,
       dtype |-> "object"]>>,
    <<[name |-> <<"R", "e", "v", "e", "n", "u", "e">>,
       dtype |-> "object"],
      [name |-> <<"v", "a", "l", "i", "d">>,
       dtype |-> "number"]>>,
    <<[name |-> <<"o", "r", "d", "e", "r", "_", "d", "a", "t", "e">>,
       dtype |-> "datetime"]>>,
    <<[name |-> <<"i", "d">>,
       dtype |-> "number"]>>,
    <<[name |-> <<"A", "v", "e", "r", "a", "g", "e", " ", "x">>,
       dtype |-> "number"],
      [name |-> <<"x", " ", "V", "a", "r", "i", "a", "b", "i", "l", "i", "t",
               "y", " ", "I", "n", "d", "e", "x">>,
       dtype |-> "number"]>>,
    <<[name |-> <<"T", "o", "t", "a", "l", " ", "s", "a", "l", "e", "s", " ",
               "r", "e", "s", "u", "l", "t">>,
       dtype |-> "object"],
      [name |-> <<"s", "a", "l", "e", "s", " ", "r", "e", "s", "u", "l", "t",
               " ", "S", "u", "c", "c", "e", "s", "s", " ", "R", "a", "t", "e">>,
       dtype |-> "number"]>>}

\* The values of one column of a table of n rows
NamedVals(n) ==
    CASE n = 0 -> {<<>>}
      [] n = 1 -> {<<1>>, <<NaN>>}
      [] n = 2 -> {<<0, 1>>, <<1, 1>>, <<NaN, 1>>}
      [] n = 3 -> {<<1, 0, 1>>, <<NaN, NaN, NaN>>, <<NaN, 1, 1>>}
      [] OTHER -> {[r \in 1 .. n |-> r]}

NamedLens == {0, 1, 2, 3, 5}

NamedTable ==
    \E sch \in NamedSchemas, n \in NamedLens :
        \E vs \in [DOMAIN sch -> NamedVals(n)] :
            data = [nrows |-> n,
                    cols |-> [i \in DOMAIN sch |->
                                 [name |-> sch[i].name, dtype |-> sch[i].dtype,
                                  vals |-> vs[i]]]]

\* The tables on which calls are repeated: three rows, with equal dates,
\* equal missing counts and equal correlations among them
RepeatDTypes == {<<"datetime", "number">>, <<"number", "object">>,
                 <<"number", "number", "number">>}

RepeatVals == {<<1, 0, 1>>, <<NaN, 1, 1>>}

RepeatTable ==
    \E sch \in NamedSchemas :
        /\ [i \in DOMAIN sch |-> sch[i].dtype] \in RepeatDTypes
        /\ \E vs \in [DOMAIN sch -> RepeatVals] :
               data = [nrows |-> 3,
                       cols |-> [i \in DOMAIN sch |->
                                    [name |-> sch[i].name, dtype |-> sch[i].dtype,
                                     vals |-> vs[i]]]]

\* The sheets that are uploaded one after the other: one row or none, of
\* every named schema
UploadTables ==
    {[nrows |-> n,
      cols |-> [i \in DOMAIN sch |->
                   [name |-> sch[i].name, dtype |-> sch[i].dtype,
                    vals |-> [r \in 1 .. n |-> 1]]]] :
        sch \in NamedSchemas, n \in {0, 1}}

-----------------------------------------------------------------------------
(* PowerPointAnalyzer (src/utils/ppt_analyzer.py): the insights of a deck *)

\* The most calls of generate_ai_insights followed in one session
MaxInsights == 2

\* os.environ.get("OPENAI_API_KEY", "dummy-key"): "unset" is the variable
\* not being set
ApiKeys == {"unset", "dummy-key", "sk-live"}

\* The texts of the shapes of the slides of an uploaded deck
Decks == {<<>>, <<"Plan">>, <<"Plan", "Costs">>}

\* _initialize_openai that builds a client whatever the key is
ClientWhateverKey(api_key) == "OpenAI"

\* PowerPointAnalyzer._initialize_openai: the client, or None for no key
_initialize_openai(api_key) ==
    IF (IF api_key = "unset" THEN "dummy-key" ELSE api_key) = "dummy-key"
    THEN "None"
    ELSE "OpenAI"

\* The callers that can be inside generate_ai_insights of one analyzer at the
\* same time: the method waits for the service, and nothing keeps a second
\* caller out meanwhile
Callers == {"A", "B"}

\* A caller that is not inside generate_ai_insights.  Inside, pc is
\* "prepared" (lines 158-189 done, or the client about to ask again) or
\* "waiting" (a request sent, line 190), and sent holds the failures of the
\* requests of this call that the client asked again for
Idle == [pc |-> "idle", sent |-> <<>>]

\* PowerPointAnalyzer.__init__; with the fields of the object, the calls of
\* generate_ai_insights that returned (invocations), the requests sent to
\* the service (requests) and where each caller is (calls)
PowerPointAnalyzer(file_content, api_key) ==
    [presentation |-> file_content, slides_data |-> <<>>,
     openai_client |-> _initialize_openai(api_key), invocations |-> 0,
     requests |-> 0, calls |-> [c \in Callers |-> Idle]]

\* The calls of generate_ai_insights made so far: returned, or under way
Started(p) ==
    p.invocations + Cardinality({c \in Callers : p.calls[c].pc # "idle"})

\* No deck uploaded: the analyzer of the tables runs alone
NoPresentation == PowerPointAnalyzer(<<>>, "unset")

\* PowerPointAnalyzer.extract_slide_content
extract_slide_content(p) ==
    [i \in DOMAIN p.presentation |->
        [slide_number |-> i, title |-> p.presentation[i],
         text_length |-> Len(p.presentation[i])]]

\* self.slides_data after "if not self.slides_data: extract_slide_content()"
SlidesData(p) == IF p.slides_data = <<>> THEN extract_slide_content(p)
                 ELSE p.slides_data

\* The payload returned when there is no client
NotConfigured ==
    Payload("AI analysis not available - API key not configured",
            <<"AI analysis requires OpenAI API key">>,
            <<"Configure OpenAI API key for detailed insights">>,
            "Unable to assess without AI analysis")

\* The payload returned when the message has no content
NoContent ==
    Payload("No content returned from AI analysis", <<"Analysis incomplete">>,
            <<"Retry analysis">>, "Unable to assess")

\* The payload returned by the except clause
ErrorPayload ==
    Payload("Error generating AI analysis", <<"Analysis failed">>,
            <<"Check API configuration">>, "Unable to assess due to error")

\* What the service answers
Answer == Payload("A plan and its costs", <<"planning", "costs">>,
                  <<"Add a summary slide">>, "7")

\* What chat.completions.create does: it raises, or it returns a response
\* with its choices; a choice holds the content of its message, which is
\* None, or a text with the object it parses to (json |-> FALSE: no JSON)
Responses ==
    {[raises |-> e, choices |-> <<>>] :
        e \in {"APIConnectionError", "APITimeoutError", "AuthenticationError",
               "RateLimitError"}}
    \cup {[raises |-> "none", choices |-> <<>>]}
    \cup {[raises |-> "none", choices |-> <<c>>] :
            c \in {[content |-> "None", json |-> FALSE, object |-> NoPayload],
                   [content |-> "", json |-> FALSE, object |-> NoPayload],
                   [content |-> "Sorry, I cannot", json |-> FALSE,
                    object |-> NoPayload],
                   [content |-> "{...}", json |-> TRUE, object |-> Answer]}}

\* json.loads(content)
json_loads(c) == IF c.json THEN [exc |-> "none", object |-> c.object]
                 ELSE [exc |-> "JSONDecodeError", object |-> NoPayload]

\* A call that draws an element can end the run of the script there:
\* Streamlit stops or reruns a script by raising, in the next st call, an
\* exception that is not an Exception, which no handler of the program catches
RunStops == BOOLEAN

\* except Exception as e: st.error(...); return the placeholder.  A run that
\* ends in st.error leaves the method with Streamlit's exception, which is
\* raised inside the handler: nothing is returned
Excepted(exception, stopped) ==
    IF stopped THEN [exc |-> "ScriptControlException", payload |-> NoPayload]
    ELSE [exc |-> "none", payload |-> ErrorPayload]

\* The try block of generate_ai_insights and its handler, the response being
\* r and the run ending in the handler's st.error or not
TryBlock(r, stopped) ==
    IF r.raises # "none" THEN Excepted(r.raises, stopped)
    ELSE IF r.choices = <<>> THEN Excepted("IndexError", stopped)
    ELSE LET c == r.choices[1]
         IN  IF c.content \in {"None", ""}
             THEN [exc |-> "none", payload |-> NoContent]
             ELSE IF json_loads(c).exc # "none"
                  THEN Excepted(json_loads(c).exc, stopped)
                  ELSE [exc |-> "none", payload |-> json_loads(c).object]

\* OpenAI(api_key=api_key): the client is built with the settings of the
\* library, which asks again, up to max_retries = 2 times, for a request that
\* failed to connect, timed out or was answered 408, 409, 429 or 5xx, and
\* gives up a request after the library's own timeout
MaxRetries == 2

\* The failures after which the client asks again, as the exceptions it
\* raises for them when it has asked max_retries times more
Retried == {"APIConnectionError", "APITimeoutError", "RateLimitError"}

\* The failed requests that the client made and asked again for, inside one
\* call of chat.completions.create that ends with r: all the retries when
\* r is such a failure itself, none to all of them otherwise
FailedAttempts(r) ==
    UNION {[1 .. n -> Retried] :
              n \in IF r.raises \in Retried THEN {MaxRetries}
                    ELSE 0 .. MaxRetries}

\* A request to the service on the prepared text, answered by r
Request(p, r) == [model |-> "gpt-4o", slides |-> Len(SlidesData(p)),
                  response |-> r]

\* The requests that the call of chat.completions.create (190-203) sends to
\* the service: the ones that failed and were asked again, then the one
\* whose outcome, r, is the outcome of the call
Calls(p, r, failed) ==
    [i \in DOMAIN failed |->
        Request(p, [raises |-> failed[i], choices |-> <<>>])]
    \o <<Request(p, r)>>

\* PowerPointAnalyzer.generate_ai_insights, the call of the client ending
\* with r after the failed requests: the outcome, the calls of
\* chat.completions.create, the requests sent to the service, and the slides
\* extracted
generate_ai_insights(p, r, failed, stopped) ==
    IF p.openai_client = "None"
    THEN [exc |-> "none", payload |-> NotConfigured, calls |-> 0,
          requests |-> <<>>, slides_data |-> p.slides_data]
    ELSE [exc |-> TryBlock(r, stopped).exc,
          payload |-> TryBlock(r, stopped).payload, calls |-> 1,
          requests |-> Calls(p, r, failed), slides_data |-> SlidesData(p)]

-----------------------------------------------------------------------------
(* DataAnalyzer.get_column_info, get_summary_statistics and                  *)
(* analyze_categorical_distribution                                          *)

\* str(self.data[col].dtype): a numeric column read from a sheet holds
\* integers, or floats when a cell of it is empty
DTypeStr(col) ==
    CASE col.dtype = "object" -> "object"
      [] col.dtype = "datetime" -> "datetime64[ns]"
      [] OTHER -> IF MissingCount(col) = 0 THEN "int64" ELSE "float64"

\* The frame of one row per column, in table order
get_column_info(d) ==
    [i \in 1 .. NCols(d) |->
        [column |-> d.cols[i].name,
         data_type |-> DTypeStr(d.cols[i]),
         non_null_count |-> Len(d.cols[i].vals) - MissingCount(d.cols[i]),
         null_count |-> MissingCount(d.cols[i]),
         unique_values |-> NUnique(d.cols[i])]]

\* Series.std(): the sample standard deviation, nan for fewer than 2 values:
\* sqrt((n Sxx - S^2) / (n (n - 1)))
Std(c) ==
    LET v == NonNullVals(c)
        n == Len(v)
        S == SumSeq(v)
    IN  IF n < 2 THEN NanResult
        ELSE Number("float", 1,
                    <<Term(n * SumSquares(v) - S * S, n * (n - 1), TRUE)>>, 1)

\* One column of describe(): count, mean, std, min, 25%, 50%, 75%, max of the
\* non-null values
Describe(c) ==
    LET v == SortAsc(NonNullVals(c))
        of(x) == IF v = <<>> THEN NanResult ELSE x
    IN  [column |-> c.name,
         count |-> Len(v),
         mean |-> Mean(c),
         std |-> Std(c),
         min |-> of(Ratio("float", 1, Smallest(v), 1)),
         q25 |-> of(Ratio("float", 1, Quantile4(v, 1), 4)),
         q50 |-> of(Ratio("float", 1, Quantile4(v, 2), 4)),
         q75 |-> of(Ratio("float", 1, Quantile4(v, 3), 4)),
         max |-> of(Ratio("float", 1, Largest(v), 1))]

\* numerical_data.describe(), or pd.DataFrame() when numerical_data.empty:
\* no numeric column, or no row
get_summary_statistics(d) ==
    IF NumericCols(d) = <<>> \/ NRows(d) = 0 THEN <<>>
    ELSE [k \in DOMAIN NumericCols(d) |-> Describe(d.cols[NumericCols(d)[k]])]

\* The distinct non-null values of a column in the order of their first
\* appearance
RECURSIVE Distinct(_)
Distinct(v) ==
    IF v = <<>> THEN <<>>
    ELSE LET rest == Distinct(SubSeq(v, 1, Len(v) - 1))
             last == v[Len(v)]
         IN  IF IsNull(last) \/ In(last, rest) THEN rest
             ELSE Append(rest, last)

\* Series.value_counts(): the distinct values with their counts, the most
\* frequent first, equal counts in the order of the build
value_counts(c, rank) ==
    LET values == Distinct(c.vals)
        counted == [k \in DOMAIN values |->
                       [value |-> values[k],
                        count |-> Cardinality({r \in DOMAIN c.vals :
                                                  c.vals[r] = values[k]})]]
    IN  SortDescending(counted, [k \in DOMAIN counted |-> counted[k].count],
                       rank)

NoDistribution == [value_counts |-> <<>>, unique_count |-> 0,
                   most_frequent |-> NaN, frequency_percentage |-> <<>>]

\* analyze_categorical_distribution(column): None for a column that is not
\* in the table; value_counts.index[0] raises IndexError for a column
\* without a non-null value
analyze_categorical_distribution(d, column, rank) ==
    IF ~In(column, columns(d))
    THEN [exc |-> "none", found |-> FALSE, distribution |-> NoDistribution]
    ELSE LET c == ColumnOf(d, column)
             counts == value_counts(c, rank)
         IN  IF counts = <<>>
             THEN [exc |-> "IndexError", found |-> TRUE,
                   distribution |-> NoDistribution]
             ELSE [exc |-> "none", found |-> TRUE,
                   distribution |->
                       [value_counts |-> counts,
                        unique_count |-> NUnique(c),
                        most_frequent |-> counts[1].value,
                        frequency_percentage |->
                            [k \in DOMAIN counts |->
                                Ratio("float", 100, counts[k].count, NRows(d))]]]

-----------------------------------------------------------------------------
(* The state machine *)

\* The analysis is rendered, and the analyzers exist, for a loaded table only.
Rendering == data # None /\ analysis_complete

\* The floats of a build.  corr: for the correlations of the pairs of numeric
\* columns of d, any float where a threshold or a rounding can tell them
\* apart.  z: for the z-scores of the numeric columns of d, any where a z is
\* exactly 3 and is not computed exactly.
Borderline(c) ==
    /\ ~c.nan
    /\ HalfWay(c) \/ \E threshold \in Thresholds : Equals(c, threshold, 1000)

ZBorderline(col) ==
    \E k \in 1 .. Len(NonNullVals(col)) :
        ZIs3(NonNullVals(col), k) /\ ~ZInDoubles(NonNullVals(col), k)

CorrErrors(d) ==
    LET k == Len(NumericCols(d))
        pairs == {<<i, j>> \in (1 .. k) \X (1 .. k) : i < j}
        c(i, j) == Corr(d.cols[NumericCols(d)[i]], d.cols[NumericCols(d)[j]])
    IN  {err \in [1 .. Cardinality(pairs) -> FloatsOf] :
            \A ij \in pairs :
                ~Borderline(c(ij[1], ij[2])) => err[PairNo(ij[1], ij[2])] = 0}

ZErrors(d) ==
    {err \in [1 .. Len(NumericCols(d)) -> FloatsOf] :
        \A k \in 1 .. Len(NumericCols(d)) :
            ~ZBorderline(d.cols[NumericCols(d)[k]]) => err[k] = 0}

FloatErrors(d) == [corr : CorrErrors(d), z : ZErrors(d)]

\* The exact values: in a session that compares no correlation and no z
ExactFloats(d) ==
    [corr |-> [n \in 1 .. (Len(NumericCols(d)) * (Len(NumericCols(d)) - 1)) \div 2
                  |-> 0],
     z |-> [k \in 1 .. Len(NumericCols(d)) |-> 0]]

\* The longest list a call on d sorts: the columns with a missing value, the
\* pairs of numeric columns, or the rows (for a growth rate).
TieLen(d) ==
    LET k == Len(NumericCols(d))
        pairs == (k * (k - 1)) \div 2
        missing == Len(MissingRows(d))
        rows == IF k > 0 /\ \E c \in Range(d.cols) : c.dtype = "datetime"
                THEN NRows(d) ELSE 0
    IN  CHOOSE n \in {pairs, missing, rows} : n >= pairs /\ n >= missing /\ n >= rows

Init ==
    /\ \/ SmallTable \/ LongTable \/ PoolTable
       \/ HalfWayTable \/ BoundaryTable \/ PercentTable
    /\ fp \in FloatErrors(data)
    /\ ret = NoRet
    /\ tie \in PermSeqs(1 .. TieLen(data))
    /\ memo = NoRet
    /\ analysis_complete = TRUE
    /\ ppt = NoPresentation

GetDataQualityMetrics ==
    /\ Rendering
    /\ ret' = [NoRet EXCEPT !.op = "get_data_quality_metrics",
                            !.metrics = get_data_quality_metrics(data)]
    /\ UNCHANGED <<data, tie, memo, analysis_complete, ppt, fp>>

AnalyzeMissingValues ==
    /\ Rendering
    /\ ret' = [NoRet EXCEPT !.op = "analyze_missing_values",
                            !.missing = analyze_missing_values(data, tie)]
    /\ UNCHANGED <<data, tie, memo, analysis_complete, ppt, fp>>

DetectOutliers ==
    /\ Rendering
    /\ \E method \in Methods :
          LET out == detect_outliers(data, method, fp.z)
          IN  ret' = [NoRet EXCEPT !.op = "detect_outliers", !.method = method,
                                   !.exc = out.exc, !.outliers = out.info]
    /\ UNCHANGED <<data, tie, memo, analysis_complete, ppt, fp>>

DetectDataPatterns ==
    /\ Rendering
    /\ ret' = [NoRet EXCEPT !.op = "detect_data_patterns",
                            !.patterns = detect_data_patterns(data)]
    /\ UNCHANGED <<data, tie, memo, analysis_complete, ppt, fp>>

GenerateKpiSuggestions ==
    /\ Rendering
    /\ ret' = [NoRet EXCEPT !.op = "generate_kpi_suggestions",
                            !.kpis = generate_kpi_suggestions(data)]
    /\ UNCHANGED <<data, tie, memo, analysis_complete, ppt, fp>>

\* SortValues with inplace=True: the rows of the table are reordered
SortValuesInPlace(d, order) ==
    [d EXCEPT !.cols = [i \in DOMAIN d.cols |->
                           [d.cols[i] EXCEPT
                               !.vals = [r \in 1 .. NRows(d) |->
                                            d.cols[i].vals[order[r]]]]]]

\* The table after sorted_data = data.sort_values(date_column): the call
\* returns a sorted copy and leaves data as it is
SortValues(d, order) == d

\* The table after the calculations made by a display that ends at stop,
\* e of them in the category of stop: the growth rates sort it
TableAfterDisplay(d, rank, display, stop, e) ==
    IF GrowthCalculated(display, stop, e)
    THEN SortValues(d, SortedRows(d, d.cols[ColsOfType(d, "datetime")[1]], rank))
    ELSE d

\* The tab of the KPIs is drawn (app.py 352-381): the loops run to their
\* end, or Streamlit ends the run in one of their st calls
DisplayKpis ==
    /\ Rendering
    /\ \E display \in {display_kpis(data, tie)} :
       \E k \in DOMAIN display :
       \E j \in 0 .. Len(display[k].kpis) :
          LET stop == [category |-> k, shown |-> j]
          IN  /\ DisplayStop(display, stop)
              /\ ret' = [NoRet EXCEPT
                             !.op = "display_kpis",
                             !.display = ShownBefore(display, stop),
                             !.stopped = ~Completed(display, stop)]
              /\ data' \in {TableAfterDisplay(data, tie, display, stop, e) :
                                e \in Evaluations(display, stop)}
    /\ UNCHANGED <<tie, memo, analysis_complete, ppt, fp>>

\* The table after kpi['calculation'](data): a growth rate sorts it
TableAfterCalculation(d, rank, kpi) ==
    IF kpi.calculation.fn = "growth_rate"
    THEN SortValues(d, SortedRows(d, ColumnOf(d, kpi.calculation.date_column),
                                  rank))
    ELSE d

\* The bound calculation of one KPI of the catalog is called on the table
CalculateKpi ==
    /\ Rendering
    /\ \E catalog \in {generate_kpi_suggestions(data)} :
       \E k \in DOMAIN catalog :
       \E j \in DOMAIN catalog[k].kpis :
          /\ ret' = [NoRet EXCEPT
                         !.op = "kpi_calculation",
                         !.kpi = <<k, j>>,
                         !.value = Calculate(catalog[k].kpis[j], data, tie)]
          /\ data' = TableAfterCalculation(data, tie, catalog[k].kpis[j])
    /\ UNCHANGED <<tie, memo, analysis_complete, ppt, fp>>

GetColumnInfo ==
    /\ Rendering
    /\ ret' = [NoRet EXCEPT !.op = "get_column_info",
                            !.value = get_column_info(data)]
    /\ UNCHANGED <<data, tie, memo, analysis_complete, ppt, fp>>

GetSummaryStatistics ==
    /\ Rendering
    /\ ret' = [NoRet EXCEPT !.op = "get_summary_statistics",
                            !.value = get_summary_statistics(data)]
    /\ UNCHANGED <<data, tie, memo, analysis_complete, ppt, fp>>

\* The column asked for is one of the table, or one it does not have
AnalyzeCategoricalDistribution ==
    /\ Rendering
    /\ \E column \in Range(columns(data)) \cup {<<"n", "o", "n", "e">>} :
          LET out == analyze_categorical_distribution(data, column, tie)
          IN  ret' = [NoRet EXCEPT
                         !.op = "analyze_categorical_distribution",
                         !.column = column,
                         !.exc = out.exc,
                         !.value = IF out.found THEN <<out.distribution>>
                                   ELSE <<>>]
    /\ UNCHANGED <<data, tie, memo, analysis_complete, ppt, fp>>

\* A statistical KPI is evaluated on the table by itself: kpi['calculation']
\* of a definition that a generator made for a column of this name on a
\* table of two rows, Range Ratio included
CalculateStatistical ==
    /\ Rendering
    /\ \E k \in DOMAIN numerical_cols(data), j \in 1 .. 3 :
          LET kpi == StatisticalFor([nrows |-> 2, cols |-> <<>>],
                                    numerical_cols(data)[k])[j]
          IN  ret' = [NoRet EXCEPT
                         !.op = "calculation",
                         !.display = <<[category |-> "Statistical KPIs",
                                        kpis |-> ShowEach(<<kpi>>, data, tie)]>>]
    /\ UNCHANGED <<data, tie, memo, analysis_complete, ppt, fp>>

GetBasicInfo ==
    /\ Rendering
    /\ ret' = [NoRet EXCEPT !.op = "get_basic_info",
                            !.basic_info = get_basic_info(data)]
    /\ UNCHANGED <<data, tie, memo, analysis_complete, ppt, fp>>

\* The seconds at which a report is generated
Times == {0, 1}

\* The "Generate Report" button; the clock does not run backwards
GenerateAnalysisReport ==
    /\ Rendering
    /\ \E now \in Times :
          /\ now >= ret.now /\ now >= memo.now
          /\ ret' = [NoRet EXCEPT !.op = "generate_analysis_report",
                                  !.now = now,
                                  !.report = generate_analysis_report(data, tie, now)]
    /\ UNCHANGED <<data, tie, memo, analysis_complete, ppt, fp>>

\* The caller keeps what the last call returned
Remember ==
    /\ ret.op # "none"
    /\ memo' = ret
    /\ UNCHANGED <<data, ret, tie, analysis_complete, ppt, fp>>

\* except Exception: st.session_state.data = None
DataAfterError(d) == None

\* st.session_state.data = data, the frame that pd.read_excel returned
DataAfterRead(d, t) == t

\* The two assignments to st.session_state that end each branch of the
\* upload are two steps: an access to the session state, as a st call, is a
\* point where Streamlit ends the run, before the access is made.  The
\* number of the two assignments that a run has made: 2 when it goes to the
\* end, 0 when it ends before the first (in a st call before it, or at the
\* first assignment), 1 when it ends at the second.
SessionWrites == {0, 1, 2}

\* A file is uploaded and pd.ExcelFile opens it.  The run chooses the sheet
\* (st.markdown, st.selectbox), reads it, assigns data (208), then assigns
\* analysis_complete (209).  A run that stops in st.success or st.info has
\* assigned the session as one that ends has.
UploadRead ==
    /\ \E t \in UploadTables, writes \in SessionWrites :
          /\ data' = IF writes >= 1 THEN DataAfterRead(data, t) ELSE data
          /\ analysis_complete' = IF writes = 2 THEN TRUE
                                  ELSE analysis_complete
          /\ ret' = [NoRet EXCEPT !.op = "upload",
                                  !.read = IF writes >= 1 THEN t ELSE None,
                                  !.stopped = writes < 2,
                                  !.writes = writes]
    /\ UNCHANGED <<tie, memo, ppt, fp>>

\* A file is uploaded and pd.ExcelFile or pd.read_excel raises: the handler
\* shows the error (215), then assigns data (216), then assigns
\* analysis_complete (217); a run that stops in st.error has shown the error
\* and reset nothing, one that stops at the second assignment has reset the
\* table alone
UploadFails ==
    /\ \E writes \in SessionWrites :
          /\ data' = IF writes >= 1 THEN DataAfterError(data) ELSE data
          /\ analysis_complete' = IF writes = 2 THEN FALSE
                                  ELSE analysis_complete
          /\ ret' = [NoRet EXCEPT !.op = "upload", !.exc = "Exception",
                                  !.stopped = writes < 2,
                                  !.writes = writes]
    /\ UNCHANGED <<tie, memo, ppt, fp>>

CalculateCorrelationMatrix ==
    /\ Rendering
    /\ ret' = [NoRet EXCEPT !.op = "calculate_correlation_matrix",
                            !.matrix = calculate_correlation_matrix(data)]
    /\ UNCHANGED <<data, tie, memo, analysis_complete, ppt, fp>>

FindStrongCorrelations ==
    /\ Rendering
    /\ \E threshold \in Thresholds :
          LET out == find_strong_correlations(data, threshold, tie, fp.corr)
          IN  ret' = [NoRet EXCEPT !.op = "find_strong_correlations",
                                   !.threshold = threshold,
                                   !.exc = out.exc, !.strong = out.rows]
    /\ UNCHANGED <<data, tie, memo, analysis_complete, ppt, fp>>

\* A deck is uploaded and PowerPointAnalyzer(file) is built
UploadDeck ==
    /\ \E deck \in Decks, api_key \in ApiKeys :
          ppt' = PowerPointAnalyzer(deck, api_key)
    /\ ret' = [NoRet EXCEPT !.op = "upload_deck"]
    /\ UNCHANGED <<data, tie, memo, analysis_complete, fp>>

\* The slides are extracted for the overview of the deck
ExtractSlideContent ==
    /\ ppt' = [ppt EXCEPT !.slides_data = extract_slide_content(ppt)]
    /\ ret' = [NoRet EXCEPT !.op = "extract_slide_content"]
    /\ UNCHANGED <<data, tie, memo, analysis_complete, fp>>

\* No call of the service is made
NoResponse == [raises |-> "none", choices |-> <<>>]

\* What a call of generate_ai_insights that ends leaves in ret
Returned(out) ==
    [NoRet EXCEPT !.op = "generate_ai_insights", !.exc = out.exc,
                  !.insights = out.payload, !.calls = out.calls,
                  !.requests = out.requests,
                  !.stopped = out.exc = "ScriptControlException"]

\* The "generate insights" action of the user, lines 156-189: without a
\* client the call returns at once; with one, the slides are extracted if
\* none are held (167) and the text is prepared
GenerateAiInsights ==
    /\ Started(ppt) < MaxInsights
    /\ \E c \in Callers :
          /\ ppt.calls[c].pc = "idle"
          /\ IF ppt.openai_client = "None"
             THEN LET out == generate_ai_insights(ppt, NoResponse, <<>>, FALSE)
                  IN  /\ ret' = Returned(out)
                      /\ ppt' = [ppt EXCEPT !.invocations = @ + 1]
             ELSE /\ ppt' = [ppt EXCEPT !.slides_data = SlidesData(ppt),
                                        !.calls[c].pc = "prepared"]
                  /\ ret' = ret
    /\ UNCHANGED <<data, tie, memo, analysis_complete, fp>>

\* self.openai_client.chat.completions.create (190): the client sends a
\* request to the service and the caller waits for the answer
CreateRequest ==
    /\ \E c \in Callers :
          /\ ppt.calls[c].pc = "prepared"
          /\ ppt' = [ppt EXCEPT !.requests = @ + 1,
                                !.calls[c].pc = "waiting"]
    /\ UNCHANGED <<data, ret, tie, memo, analysis_complete, fp>>

\* Inside the call of line 190: the request failed in a way the client
\* asks again for, and it has retries left
RequestRetried ==
    /\ \E c \in Callers, e \in Retried :
          /\ ppt.calls[c].pc = "waiting"
          /\ Len(ppt.calls[c].sent) < MaxRetries
          /\ ppt' = [ppt EXCEPT !.calls[c].sent = Append(@, e),
                                !.calls[c].pc = "prepared"]
    /\ UNCHANGED <<data, ret, tie, memo, analysis_complete, fp>>

\* The call of line 190 ends with r, lines 205-223 run and the method
\* returns, or is left in st.error (217) by the end of the run
InsightsReturned ==
    /\ \E c \in Callers, r \in Responses, stopped \in RunStops :
          /\ ppt.calls[c].pc = "waiting"
          /\ ppt.calls[c].sent \in FailedAttempts(r)
          /\ LET out == generate_ai_insights(ppt, r, ppt.calls[c].sent,
                                             stopped)
             IN  /\ ret' = Returned(out)
                 /\ ppt' = [ppt EXCEPT !.slides_data = out.slides_data,
                                       !.invocations = @ + 1,
                                       !.calls[c] = Idle]
    /\ UNCHANGED <<data, tie, memo, analysis_complete, fp>>

Next ==
    \/ GetDataQualityMetrics
    \/ AnalyzeMissingValues
    \/ DetectOutliers
    \/ CalculateCorrelationMatrix
    \/ FindStrongCorrelations

Spec == Init /\ [][Next]_vars

\* The name-driven operations, on the tables with the names they look at
InitKpi ==
    /\ NamedTable
    /\ ret = NoRet
    /\ tie \in PermSeqs(1 .. TieLen(data))
    /\ memo = NoRet
    /\ analysis_complete = TRUE
    /\ ppt = NoPresentation
    /\ fp = ExactFloats(data)

NextKpi ==
    \/ DetectDataPatterns
    \/ GenerateKpiSuggestions

SpecKpi == InitKpi /\ [][NextKpi]_vars

\* The KPIs of those tables displayed
NextDisplay ==
    \/ GenerateKpiSuggestions
    \/ DisplayKpis

SpecDisplay == InitKpi /\ [][NextDisplay]_vars

\* Calls repeated in any order on one table, the caller keeping an earlier
\* result to compare the later ones with
\* A build whose sort keeps equal keys in input order, and one that reverses
\* them
TieOrders(n) == {[i \in 1 .. n |-> i], [i \in 1 .. n |-> n + 1 - i]}

\* The longest list a call on d sorts, the values counted of a column
\* included
RepeatTieLen(d) ==
    LET most == {TieLen(d)} \cup {NUnique(d.cols[i]) : i \in 1 .. NCols(d)}
    IN  CHOOSE n \in most : \A m \in most : m <= n

InitRepeat ==
    /\ RepeatTable
    /\ fp \in FloatErrors(data)
    /\ ret = NoRet
    /\ tie \in TieOrders(RepeatTieLen(data))
    /\ memo = NoRet
    /\ analysis_complete = TRUE
    /\ ppt = NoPresentation

\* The operations of DataAnalyzer and of KPIGenerator
NextRepeat ==
    \/ GetBasicInfo
    \/ GetColumnInfo
    \/ GetSummaryStatistics
    \/ GetDataQualityMetrics
    \/ AnalyzeMissingValues
    \/ DetectOutliers
    \/ CalculateCorrelationMatrix
    \/ FindStrongCorrelations
    \/ AnalyzeCategoricalDistribution
    \/ DetectDataPatterns
    \/ GenerateKpiSuggestions
    \/ CalculateKpi
    \/ Remember

SpecRepeat == InitRepeat /\ [][NextRepeat]_vars

\* The report generated again on one table
NextReport ==
    \/ GenerateAnalysisReport
    \/ Remember

SpecReport == InitRepeat /\ [][NextReport]_vars

\* The KPIs displayed and the quality metrics of one table
NextDensity ==
    \/ DisplayKpis
    \/ GetDataQualityMetrics
    \/ Remember

SpecDensity == InitRepeat /\ [][NextDensity]_vars

\* The session of app.py: nothing is loaded until a file is uploaded
SessionTieLen ==
    CHOOSE n \in {TieLen(t) : t \in UploadTables} :
        \A t \in UploadTables : TieLen(t) <= n

InitSession ==
    /\ data = None
    /\ analysis_complete = FALSE
    /\ ret = NoRet
    /\ tie \in PermSeqs(1 .. SessionTieLen)
    /\ memo = NoRet
    /\ ppt = NoPresentation
    /\ fp = ExactFloats(None)

NextSession ==
    \/ UploadRead
    \/ UploadFails
    \/ GetDataQualityMetrics
    \/ Remember

SpecSession == InitSession /\ [][NextSession]_vars

\* The statistics of numeric columns, beside text columns or not: columns
\* of zeros, of nulls, of one value, of no row
StatVals(n) ==
    CASE n = 0 -> {<<>>}
      [] n = 1 -> {<<0>>, <<2>>, <<NaN>>}
      [] n = 2 -> {<<0, 0>>, <<0, 1>>, <<1, 1>>, <<NaN, 2>>, <<NaN, NaN>>,
                   <<2, 4>>}
      [] OTHER -> {<<1, 0, 1>>, <<NaN, 0, 0>>, <<NaN, 1, 1>>, <<1, 2, 3>>,
                   <<2, 2, 5>>, <<4, NaN, 1>>}

StatTable ==
    \E k \in 1 .. 2, n \in 0 .. MaxRows :
        \E dt \in [1 .. k -> {"number", "object"}], vs \in [1 .. k -> StatVals(n)] :
            data = Table(n, dt, vs)

InitStat ==
    /\ StatTable
    /\ ret = NoRet
    /\ tie \in TieOrders(TieLen(data))
    /\ memo = NoRet
    /\ analysis_complete = TRUE
    /\ ppt = NoPresentation
    /\ fp = ExactFloats(data)

NextStat ==
    \/ CalculateStatistical
    \/ DisplayKpis
    \/ GetDataQualityMetrics

SpecStat == InitStat /\ [][NextStat]_vars

\* The session of a deck: the table analyzers are not involved
InitInsights ==
    /\ data = None
    /\ analysis_complete = FALSE
    /\ ret = NoRet
    /\ tie = <<>>
    /\ memo = NoRet
    /\ \E deck \in Decks, api_key \in ApiKeys :
          ppt = PowerPointAnalyzer(deck, api_key)
    /\ fp = ExactFloats(None)

NextInsights ==
    \/ UploadDeck
    \/ ExtractSlideContent
    \/ GenerateAiInsights
    \/ CreateRequest
    \/ RequestRetried
    \/ InsightsReturned

SpecInsights == InitInsights /\ [][NextInsights]_vars

-----------------------------------------------------------------------------
(* Properties.  Each is stated on the outcome of the last call (ret) and the *)
(* table it was made on (data).                                              *)

Called(op) == ret.op = op

InHundredths(f) == f.kind = "num"

ColumnNamed(name) == CHOOSE c \in Range(data.cols) : c.name = name

NumericColumns == {c \in Range(data.cols) : c.dtype = "number"}

-----------------------------------------------------------------------------
\* C1: for a table with at least one cell, Missing Percentage and Data
\* Completeness of get_data_quality_metrics are numbers that sum to 100 within
\* one rounding step (0.01), and for a table with zero cells the metrics are
\* 100 completeness and 0 missing.
C1_CompletenessPlusMissing ==
    Called("get_data_quality_metrics") =>
        LET m == ret.metrics
        IN  /\ InHundredths(m.missing_pct)
            /\ InHundredths(m.completeness)
            /\ IF m.total_cells > 0
               THEN Abs(m.missing_pct.h + m.completeness.h - 10000) <= 1
               ELSE m.completeness.h = 10000 /\ m.missing_pct.h = 0

\* The part of C1 that is about tables with at least one cell: it holds.
C1_WithCells ==
    (Called("get_data_quality_metrics") /\ NRows(data) * NCols(data) > 0) =>
        LET m == ret.metrics
        IN  /\ InHundredths(m.missing_pct)
            /\ InHundredths(m.completeness)
            /\ Abs(m.missing_pct.h + m.completeness.h - 10000) <= 1

\* 23 of 160 cells are missing: (23 / 160) * 100 is the double
\* 14.374999999999998 and is rounded to 14.37, the completeness 85.625 to
\* 85.62; the two add up to 99.99.
C1_WitnessHalfWay ==
    /\ Called("get_data_quality_metrics")
    /\ ret.metrics.total_cells = 160
    /\ ret.metrics.missing_cells = 23
    /\ ret.metrics.missing_pct = Num(1437)
    /\ ret.metrics.completeness = Num(8562)

\* C2: for a table with zero cells, Missing Percentage, Duplicate Percentage
\* and Data Completeness of get_data_quality_metrics are sentinel values, none
\* of them nan or infinite, and the call does not raise.
C2_ZeroCellSentinel ==
    (Called("get_data_quality_metrics") /\ NRows(data) * NCols(data) = 0) =>
        LET m == ret.metrics
        IN  /\ ret.exc = "none"
            /\ InHundredths(m.missing_pct)
            /\ InHundredths(m.duplicate_pct)
            /\ InHundredths(m.completeness)

-----------------------------------------------------------------------------
(* Correlations, read off the table *)

ColPos(name) == CHOOSE i \in 1 .. NCols(data) : data.cols[i].name = name

\* The place of a column among the numeric columns
NumericPos(c) ==
    Cardinality({i \in 1 .. ColPos(c.name) : data.cols[i].dtype = "number"})

\* Where the float of the correlation of x and y lies from its exact value
FloatOf(x, y) ==
    LET i == NumericPos(x)
        j == NumericPos(y)
    IN  IF i = j THEN 0
        ELSE IF i < j THEN fp.corr[((j - 1) * (j - 2)) \div 2 + i]
        ELSE fp.corr[((i - 1) * (i - 2)) \div 2 + j]

\* |r| of columns x and y, the float that the matrix holds, is defined and
\* at least threshold / 1000
StronglyCorrelated(x, y, threshold) ==
    /\ ~Corr(x, y).nan
    /\ \/ ~Equals(Corr(x, y), threshold, 1000)
          /\ FracGeq(Sq(Corr(x, y).cov), Corr(x, y).den, Sq(threshold), 1000000)
       \/ /\ Equals(Corr(x, y), threshold, 1000)
          /\ FloatOf(x, y) >= 0

\* The place of a returned row in the scan of the matrix, column by column
\* (column outer loop, row inner loop)
ScanPos(row) == (ColPos(row.var2) - 1) * NCols(data) + ColPos(row.var1)

\* C3: find_strong_correlations returns an empty result without raising
\* whenever no pair of columns qualifies, also when the table has two or more
\* numeric columns none of whose pairs has |correlation| >= threshold.
C3_EmptyWhenNoPairQualifies ==
    (/\ Called("find_strong_correlations")
     /\ \A x, y \in NumericColumns :
           x # y => ~StronglyCorrelated(x, y, ret.threshold))
    => (ret.exc = "none" /\ ret.strong = <<>>)

\* C4: every pair find_strong_correlations returns has |correlation| >=
\* threshold and lies strictly above the diagonal (Variable 1 is a numeric
\* column before Variable 2, never the same column); no unordered pair is
\* returned twice; every pair above the diagonal with a defined
\* |correlation| >= threshold is returned.
C4_StrongPairs ==
    (Called("find_strong_correlations") /\ ret.exc = "none") =>
        LET rows == ret.strong
        IN  /\ \A k \in DOMAIN rows :
                  /\ rows[k].var1 \in {c.name : c \in NumericColumns}
                  /\ rows[k].var2 \in {c.name : c \in NumericColumns}
                  /\ ColPos(rows[k].var1) < ColPos(rows[k].var2)
                  /\ StronglyCorrelated(ColumnNamed(rows[k].var1),
                                        ColumnNamed(rows[k].var2), ret.threshold)
                  /\ Abs(rows[k].correlation) >= ret.threshold
            /\ \A k, l \in DOMAIN rows :
                  k # l => {rows[k].var1, rows[k].var2}
                             # {rows[l].var1, rows[l].var2}
            /\ \A x, y \in NumericColumns :
                  (/\ ColPos(x.name) < ColPos(y.name)
                   /\ StronglyCorrelated(x, y, ret.threshold))
                  => \E k \in DOMAIN rows :
                        rows[k].var1 = x.name /\ rows[k].var2 = y.name

\* Two pairs are returned and a third, whose correlation is defined but
\* weaker than the threshold, is left out.
C4_Witness ==
    /\ Called("find_strong_correlations")
    /\ ret.exc = "none"
    /\ Len(ret.strong) = 2
    /\ \E x, y \in NumericColumns :
          /\ ColPos(x.name) < ColPos(y.name)
          /\ ~Corr(x, y).nan
          /\ ~StronglyCorrelated(x, y, ret.threshold)

\* The exact correlation of a pair is the threshold and the float of the
\* build is below it: the pair is not returned.
C4_WitnessBelowThreshold ==
    /\ Called("find_strong_correlations")
    /\ \E x, y \in NumericColumns :
          /\ ColPos(x.name) < ColPos(y.name)
          /\ Equals(Corr(x, y), ret.threshold, 1000)
          /\ FloatOf(x, y) < 0
          /\ \A k \in DOMAIN ret.strong :
                ret.strong[k].var1 # x.name \/ ret.strong[k].var2 # y.name

\* The exact correlation of a pair is the threshold and the float of the
\* build is the threshold: the pair is returned.
C4_WitnessAtThreshold ==
    /\ Called("find_strong_correlations")
    /\ ret.exc = "none"
    /\ \E x, y \in NumericColumns :
          /\ ColPos(x.name) < ColPos(y.name)
          /\ Equals(Corr(x, y), ret.threshold, 1000)
          /\ FloatOf(x, y) = 0
          /\ \E k \in DOMAIN ret.strong :
                /\ ret.strong[k].var1 = x.name /\ ret.strong[k].var2 = y.name
                /\ Abs(ret.strong[k].correlation) = ret.threshold

\* The correlation of a pair is half-way between two thousandths: it is
\* reported as the even one where the float is exact, and as the one on the
\* side of the float where it is not.
RoundedHalfWay ==
    (Called("find_strong_correlations") /\ ret.exc = "none") =>
        \A k \in DOMAIN ret.strong :
            LET x == ColumnNamed(ret.strong[k].var1)
                y == ColumnNamed(ret.strong[k].var2)
                v == Abs(ret.strong[k].correlation)
            IN  HalfWay(Corr(x, y)) =>
                    /\ FloatOf(x, y) = 0 => v % 2 = 0
                    /\ FloatOf(x, y) < 0 =>
                           FracGeq(Sq(Corr(x, y).cov), Corr(x, y).den, Sq(v), 1000000)
                    /\ FloatOf(x, y) > 0 =>
                           FracGeq(Sq(v), 1000000, Sq(Corr(x, y).cov), Corr(x, y).den)

\* A correlation of 9/16 or -9/16 is reported as 0.562 or -0.562 by a build
\* whose float is exact.
C4_WitnessHalfWay ==
    /\ Called("find_strong_correlations")
    /\ ret.exc = "none"
    /\ Len(ret.strong) = 1
    /\ HalfWay(Corr(ColumnNamed(ret.strong[1].var1), ColumnNamed(ret.strong[1].var2)))
    /\ FloatOf(ColumnNamed(ret.strong[1].var1), ColumnNamed(ret.strong[1].var2)) = 0
    /\ Abs(ret.strong[1].correlation) = 562

\* C5: the pairs find_strong_correlations returns are ordered by |correlation|
\* descending, and pairs with equal |correlation| keep the order in which the
\* column-major scan of the upper triangle met them (the sort is stable).
C5_StableDescending ==
    (Called("find_strong_correlations") /\ ret.exc = "none") =>
        \A k, l \in DOMAIN ret.strong :
            k < l =>
                \/ Abs(ret.strong[k].correlation) > Abs(ret.strong[l].correlation)
                \/ /\ Abs(ret.strong[k].correlation) = Abs(ret.strong[l].correlation)
                   /\ ScanPos(ret.strong[k]) < ScanPos(ret.strong[l])

\* The part of C5 that is about the order of the values: it holds.
C5_Descending ==
    (Called("find_strong_correlations") /\ ret.exc = "none") =>
        \A k \in 1 .. Len(ret.strong) - 1 :
            Abs(ret.strong[k].correlation) >= Abs(ret.strong[k + 1].correlation)

-----------------------------------------------------------------------------
(* Outliers, read off the table *)

\* The rows detect_outliers reported for column c (none without a key for c)
ReportedRows(c) ==
    UNION {{o.row : o \in Range(ret.outliers[k].outliers)} :
              k \in {j \in DOMAIN ret.outliers : ret.outliers[j].col = c.name}}

\* Every reported value is the value of its column in the row it is reported
\* from, and the rows of a column are reported once each, in row order.
ReportedFromOwnRow ==
    \A k \in DOMAIN ret.outliers :
        LET e == ret.outliers[k]
        IN  /\ \A j \in DOMAIN e.outliers :
                  /\ e.outliers[j].row \in 1 .. NRows(data)
                  /\ e.outliers[j].val = ColumnNamed(e.col).vals[e.outliers[j].row]
            /\ \A j \in 1 .. Len(e.outliers) - 1 :
                  e.outliers[j].row < e.outliers[j + 1].row

\* The k-th smallest non-null value of c (k = 1 is the minimum)
KthSmallest(c, k) ==
    CHOOSE v \in {c.vals[r] : r \in NonNullRows(c)} :
        /\ Cardinality({r \in NonNullRows(c) : c.vals[r] < v}) < k
        /\ k <= Cardinality({r \in NonNullRows(c) : c.vals[r] <= v})

\* The quartile q4 / 4 of the non-null values of c by linear interpolation,
\* in quarters: (1 - f) a + f b between the order statistics a, b around
\* position (m - 1) q4 / 4.
Quartile4(c, q4) ==
    LET m == Cardinality(NonNullRows(c))
        lo == ((q4 * (m - 1)) \div 4) + 1
        f4 == (q4 * (m - 1)) % 4
    IN  IF f4 = 0 THEN 4 * KthSmallest(c, lo)
        ELSE (4 - f4) * KthSmallest(c, lo) + f4 * KthSmallest(c, lo + 1)

\* The rows of c whose value v has v < Q1 - 1.5 IQR or v > Q3 + 1.5 IQR
OutsideFences(c) ==
    IF NonNullRows(c) = {} THEN {}
    ELSE LET q1 == Quartile4(c, 1)
             q3 == Quartile4(c, 3)
         IN  {r \in NonNullRows(c) :
                 \/ 8 * c.vals[r] < 2 * q1 - 3 * (q3 - q1)
                 \/ 8 * c.vals[r] > 2 * q3 + 3 * (q3 - q1)}

\* The non-null rows of c whose standard score z = (v - mean) / std over the
\* non-null values has |z| > 3: with n values of sum S,
\* n (n v - S)^2 > 9 * sum over the values w of (n w - S)^2.
BeyondThreeSigma(c) ==
    LET R == NonNullRows(c)
        n == Cardinality(R)
        S == SumOver(R, c.vals)
        dev == [r \in R |-> Sq(n * c.vals[r] - S)]
    IN  {r \in R : n * dev[r] > 9 * SumOver(R, dev)}

\* The non-null rows of c whose standard score is exactly 3 or -3
OnThreeSigma(c) ==
    LET R == NonNullRows(c)
        n == Cardinality(R)
        S == SumOver(R, c.vals)
        dev == [r \in R |-> Sq(n * c.vals[r] - S)]
    IN  {r \in R : dev[r] > 0 /\ n * dev[r] = 9 * SumOver(R, dev)}

\* The non-null rows of c whose standard score, the double that the build
\* computes, has |z| > 3: a score of exactly 3 is computed as a double above
\* 3 where fp says so
ComputedBeyondThreeSigma(c) ==
    BeyondThreeSigma(c)
    \cup (IF fp.z[NumericPos(c)] > 0 THEN OnThreeSigma(c) ELSE {})

\* c has no two different non-null values (all-null columns included)
ZeroVariance(c) ==
    \A r, q \in NonNullRows(c) : c.vals[r] = c.vals[q]

SpecExample == <<1, 2, 3, 4, 5, 100>>

\* C6: detect_outliers('iqr') flags, for each numeric column on its own,
\* exactly the values v with v < Q1 - 1.5 IQR or v > Q3 + 1.5 IQR, Q1 and Q3
\* the linearly interpolated quartiles of the column's non-null values; for
\* the column 1, 2, 3, 4, 5, 100 it flags 100 and only 100.
C6_IqrOutliers ==
    (Called("detect_outliers") /\ ret.method = "iqr") =>
        /\ ret.exc = "none"
        /\ ReportedFromOwnRow
        /\ \A c \in NumericColumns : ReportedRows(c) = OutsideFences(c)
        /\ \A k \in DOMAIN ret.outliers :
              ColumnNamed(ret.outliers[k].col).vals = SpecExample
              => ret.outliers[k].outliers = <<[row |-> 6, val |-> 100]>>
        /\ \A c \in NumericColumns :
              c.vals = SpecExample => ReportedRows(c) = {6}

\* The column of the example has been analysed and has its key.
C6_Witness ==
    /\ Called("detect_outliers")
    /\ ret.method = "iqr"
    /\ ret.outliers # <<>>
    /\ data.cols[1].vals = SpecExample
    /\ ret.outliers[1].col = data.cols[1].name

\* C7: detect_outliers('zscore') flags, for every numeric column, also one
\* that contains nulls, exactly the non-null values whose |standard score|
\* over the non-null values exceeds 3, each reported from its own row, and
\* does not fail when nulls are present.
C7_ZscoreOutliers ==
    (Called("detect_outliers") /\ ret.method = "zscore") =>
        /\ ret.exc = "none"
        /\ ReportedFromOwnRow
        /\ \A c \in NumericColumns : ReportedRows(c) = ComputedBeyondThreeSigma(c)

\* The part of C7 that is about numeric columns without nulls: it holds.
C7_WithoutNulls ==
    (/\ Called("detect_outliers")
     /\ ret.method = "zscore"
     /\ \A c \in NumericColumns : NonNullRows(c) = 1 .. NRows(data))
    => /\ ret.exc = "none"
       /\ ReportedFromOwnRow
       /\ \A c \in NumericColumns : ReportedRows(c) = ComputedBeyondThreeSigma(c)

\* Nine equal values and one other, whose standard score is exactly 3: a
\* build whose doubles put it above 3 flags it, another one does not.
C7_BoundaryFlagged ==
    /\ Called("detect_outliers")
    /\ ret.method = "zscore"
    /\ ret.exc = "none"
    /\ \E c \in NumericColumns :
          /\ OnThreeSigma(c) = {10}
          /\ ReportedRows(c) = {10}

C7_BoundaryNotFlagged ==
    /\ Called("detect_outliers")
    /\ ret.method = "zscore"
    /\ ret.exc = "none"
    /\ \E c \in NumericColumns :
          /\ OnThreeSigma(c) = {10}
          /\ c.vals[10] = 6
          /\ ReportedRows(c) = {}

\* Mean and deviation are doubles (nine 0 and one 100): the score is
\* computed as 3.0 and the value is not flagged, whatever the build.
C7_BoundaryInDoubles ==
    (/\ Called("detect_outliers")
     /\ ret.method = "zscore"
     /\ ret.exc = "none")
    => \A c \in NumericColumns :
          (\E r \in OnThreeSigma(c) : c.vals[r] = 100) => ReportedRows(c) = {}

\* C8: under 'iqr' and under 'zscore' a numeric column with zero variance or
\* with only nulls gets no entry in the mapping and does not make
\* detect_outliers raise.
C8_DegenerateColumnsSkipped ==
    (/\ Called("detect_outliers")
     /\ ret.method \in {"iqr", "zscore"}
     /\ \E c \in NumericColumns : ZeroVariance(c))
    => /\ ret.exc = "none"
       /\ \A c \in NumericColumns : ZeroVariance(c) => ReportedRows(c) = {}
       /\ \A k \in DOMAIN ret.outliers :
             ~ZeroVariance(ColumnNamed(ret.outliers[k].col))

\* The part of C8 that is about 'iqr': it holds.
C8_UnderIqr ==
    (Called("detect_outliers") /\ ret.method = "iqr") =>
        /\ ret.exc = "none"
        /\ \A k \in DOMAIN ret.outliers :
              ~ZeroVariance(ColumnNamed(ret.outliers[k].col))

\* C9: the mapping detect_outliers returns has a key only for columns with at
\* least one flagged value: no key is mapped to an empty set, every key is a
\* numeric column of the table (and no key occurs twice).
C9_KeysHaveOutliers ==
    (Called("detect_outliers") /\ ret.exc = "none") =>
        /\ \A k \in DOMAIN ret.outliers :
              /\ Len(ret.outliers[k].outliers) > 0
              /\ \E c \in NumericColumns : c.name = ret.outliers[k].col
        /\ \A k, l \in DOMAIN ret.outliers :
              k # l => ret.outliers[k].col # ret.outliers[l].col

\* Of two numeric columns one has its key and the other, without a flagged
\* value, has none.
C9_Witness ==
    /\ Called("detect_outliers")
    /\ ret.exc = "none"
    /\ Cardinality(NumericColumns) = 2
    /\ Len(ret.outliers) = 1

-----------------------------------------------------------------------------
\* C10: analyze_missing_values returns exactly the columns with a missing
\* count > 0, each once, with its missing count and missing count / row count
\* x 100; no entry has a larger missing count than an earlier one; the result
\* is empty when no column has missing values.
C10_MissingReport ==
    Called("analyze_missing_values") =>
        LET rows == ret.missing
            withMissing == {c \in Range(data.cols) :
                               \E r \in 1 .. NRows(data) : IsNull(c.vals[r])}
        IN  /\ ret.exc = "none"
            /\ {rows[k].col : k \in DOMAIN rows} = {c.name : c \in withMissing}
            /\ Len(rows) = Cardinality(withMissing)
            /\ \A k \in DOMAIN rows :
                  LET nulls == {r \in 1 .. NRows(data) :
                                   IsNull(ColumnNamed(rows[k].col).vals[r])}
                  IN  /\ rows[k].count = Cardinality(nulls)
                      /\ rows[k].pct_den > 0
                      /\ rows[k].pct_num * NRows(data)
                           = Cardinality(nulls) * 100 * rows[k].pct_den
            /\ \A k \in 1 .. Len(rows) - 1 : rows[k].count >= rows[k + 1].count
            /\ (withMissing = {}) => rows = <<>>

\* Two columns are reported, the second column of the table first because it
\* misses more values than the first.
C10_Witness ==
    /\ Called("analyze_missing_values")
    /\ Len(ret.missing) = 2
    /\ ret.missing[1].col = data.cols[2].name
    /\ ret.missing[1].count > ret.missing[2].count

-----------------------------------------------------------------------------
\* The names of the numeric columns, in table order
NumericNames ==
    LET pos == {i \in 1 .. NCols(data) : data.cols[i].dtype = "number"}
        nth(k) == CHOOSE i \in pos : Cardinality({j \in pos : j < i}) = k - 1
    IN  [k \in 1 .. Cardinality(pos) |-> data.cols[nth(k)].name]

\* r = cov / sqrt(den) is 1
IsOne(c) == ~c.nan /\ c.cov > 0 /\ c.cov * c.cov = c.den

\* C12: calculate_correlation_matrix returns an empty result when the table
\* has fewer than 2 numeric columns; otherwise the matrix is labelled on both
\* axes by the numeric columns, entry [A, B] equals entry [B, A], and the
\* diagonal entry of every numeric column whose values are not all equal is 1.
C12_CorrelationMatrix ==
    Called("calculate_correlation_matrix") =>
        LET cm == ret.matrix
            k == Len(NumericNames)
        IN  IF k < 2 THEN cm.empty
            ELSE /\ ~cm.empty
                 /\ cm.labels = NumericNames
                 /\ DOMAIN cm.m = (1 .. k) \X (1 .. k)
                 /\ \A i, j \in 1 .. k : cm.m[<<i, j>>] = cm.m[<<j, i>>]
                 /\ \A i \in 1 .. k :
                        ~ZeroVariance(ColumnNamed(cm.labels[i])) =>
                            IsOne(cm.m[<<i, i>>])

\* A single numeric column beside a text column: the result is empty.
C12_WitnessEmpty ==
    /\ Called("calculate_correlation_matrix")
    /\ Len(NumericNames) = 1
    /\ NCols(data) = 2
    /\ ret.matrix.empty

\* Two numeric columns, one of them with a missing value: a 2 x 2 matrix.
C12_Witness ==
    /\ Called("calculate_correlation_matrix")
    /\ ~ret.matrix.empty
    /\ \E c \in NumericColumns : MissingCount(c) > 0
    /\ \E i \in 1 .. 2 : IsOne(ret.matrix.m[<<i, i>>])
    /\ ~ret.matrix.m[<<1, 2>>].nan

-----------------------------------------------------------------------------
\* The number of distinct non-null values of a column
DistinctCount(c) == Cardinality({c.vals[r] : r \in NonNullRows(c)})

\* The name, lowercased, has the word somewhere in it
NameContains(c, word) ==
    \E i, j \in 1 .. Len(c.name) :
        [k \in 1 .. j - i + 1 |-> LowerChar(c.name[i + k - 1])] = word

Flagged(c) == \E k \in DOMAIN ret.patterns.id_columns :
                  ret.patterns.id_columns[k] = c.name

\* C13: detect_data_patterns lists a column as a likely identifier if and
\* only if its distinct-value count equals the row count or its name contains
\* (case-insensitively) "id", "index" or "key".
C13_IdColumns ==
    Called("detect_data_patterns") =>
        \A c \in Range(data.cols) :
            Flagged(c) <=> \/ DistinctCount(c) = NRows(data)
                           \/ NameContains(c, <<"i", "d">>)
                           \/ NameContains(c, <<"i", "n", "d", "e", "x">>)
                           \/ NameContains(c, <<"k", "e", "y">>)

\* C13 as the code has it: the name must be "index" or "key" as a whole, or
\* contain "id"; a column is flagged if and only if its distinct-value count
\* equals the row count or its name is such a name (case-insensitively).
C13_IdColumnsExactNames ==
    Called("detect_data_patterns") =>
        \A c \in Range(data.cols) :
            Flagged(c) <=> \/ DistinctCount(c) = NRows(data)
                           \/ NameContains(c, <<"i", "d">>)
                           \/ Lower(c.name) = <<"i", "n", "d", "e", "x">>
                           \/ Lower(c.name) = <<"k", "e", "y">>

\* The single column id holding 5 unique integers is flagged.
C13_Witness ==
    /\ Called("detect_data_patterns")
    /\ NCols(data) = 1
    /\ data.cols[1].name = <<"i", "d">>
    /\ data.cols[1].vals = <<1, 2, 3, 4, 5>>
    /\ ret.patterns.id_columns = <<<<"i", "d">>>>

-----------------------------------------------------------------------------
(* The KPI catalog, read off the table *)

\* The elements of a finite set of integers, ascending
Ascending(S) ==
    [k \in 1 .. Cardinality(S) |->
        CHOOSE i \in S : Cardinality({j \in S : j < i}) = k - 1]

\* The columns (positions) of a dtype whose name has one of the words
ColumnsWith(dtypes, words) ==
    {i \in 1 .. NCols(data) :
        /\ data.cols[i].dtype \in dtypes
        /\ \E w \in words : NameContains(data.cols[i], w)}

Categories == <<"Statistical KPIs", "Performance KPIs", "Data Quality KPIs",
                "Time-based KPIs", "Business KPIs">>

ProducedCategories == [k \in DOMAIN ret.kpis |-> ret.kpis[k].category]

KpisOf(category) ==
    Flatten([k \in DOMAIN ret.kpis |->
                IF ret.kpis[k].category = category THEN ret.kpis[k].kpis
                ELSE <<>>])

HasColumnOfType(dtype) == \E c \in Range(data.cols) : c.dtype = dtype

\* C14: generate_kpi_suggestions produces its categories in the order
\* Statistical, Performance, Data Quality, Time-based, Business; Statistical
\* KPIs if and only if the table has a numeric column, Time-based KPIs if and
\* only if it has a datetime column, the other three for every table.
C14_CategoryOrder ==
    Called("generate_kpi_suggestions") =>
        ProducedCategories =
            SelectSeq(Categories,
                      LAMBDA cat :
                          /\ cat = "Statistical KPIs" => HasColumnOfType("number")
                          /\ cat = "Time-based KPIs" => HasColumnOfType("datetime"))

\* A table with a datetime column and no numeric column: four categories,
\* Time-based KPIs among them, Statistical KPIs not.
C14_Witness ==
    /\ Called("generate_kpi_suggestions")
    /\ HasColumnOfType("datetime")
    /\ ~HasColumnOfType("number")
    /\ Len(ret.kpis) = 4
    /\ ret.kpis[3].category = "Time-based KPIs"
    /\ ret.kpis[3].kpis # <<>>

RevenueWords ==
    {<<"r", "e", "v", "e", "n", "u", "e">>,
     <<"s", "a", "l", "e", "s">>,
     <<"i", "n", "c", "o", "m", "e">>,
     <<"a", "m", "o", "u", "n", "t">>,
     <<"v", "a", "l", "u", "e">>,
     <<"p", "r", "i", "c", "e">>}

CountWords ==
    {<<"c", "o", "u", "n", "t">>,
     <<"q", "u", "a", "n", "t", "i", "t", "y">>,
     <<"q", "t", "y">>,
     <<"n", "u", "m", "b", "e", "r">>,
     <<"n", "u", "m">>}

\* What is compared of a KPI: its name, what it computes, on which column
Signature(k) == <<k.name, k.calculation.fn, k.calculation.column>>

TotalAndAverage(i) ==
    LET X == data.cols[i].name
    IN  <<<<<<"T", "o", "t", "a", "l", " ">> \o X, "sum", X>>,
          <<<<"A", "v", "e", "r", "a", "g", "e", " ">> \o X \o <<" ", "p", "e",
            "r", " ", "R", "e", "c", "o", "r", "d">>,
            "mean", X>>>>

Total(i) ==
    LET X == data.cols[i].name
    IN  <<<<"T", "o", "t", "a", "l", " ">> \o X, "sum", X>>

\* C19: the sum and mean KPIs of Business KPIs are, for every numeric column
\* with a revenue word in its lowercased name, 'Total X' (sum) and 'Average X
\* per Record' (mean), then for every numeric column with a count word
\* 'Total X' (sum), the columns of each scan in table order; a non-numeric
\* column yields none.
C19_RevenueAndCountKpis ==
    Called("generate_kpi_suggestions") =>
        LET found == SelectSeq(KpisOf("Business KPIs"),
                               LAMBDA k : k.calculation.fn \in {"sum", "mean"})
            revenue == Ascending(ColumnsWith({"number"}, RevenueWords))
            count == Ascending(ColumnsWith({"number"}, CountWords))
        IN  [k \in DOMAIN found |-> Signature(found[k])] =
                Flatten([k \in DOMAIN revenue |-> TotalAndAverage(revenue[k])])
                \o [k \in DOMAIN count |-> Total(count[k])]

\* Two revenue columns around a count column, and a table with a text column
\* named Revenue: five KPIs for the first, none for the second.
C19_Witness ==
    /\ Called("generate_kpi_suggestions")
    /\ Cardinality(ColumnsWith({"number"}, RevenueWords)) = 2
    /\ Cardinality(ColumnsWith({"number"}, CountWords)) = 1
    /\ Len(KpisOf("Business KPIs")) = 5
    /\ KpisOf("Business KPIs")[5].calculation.column = data.cols[2].name

C19_WitnessText ==
    /\ Called("generate_kpi_suggestions")
    /\ ColumnsWith({"object"}, RevenueWords) # {}
    /\ KpisOf("Business KPIs") = <<>>

CustomerWords ==
    {<<"c", "u", "s", "t", "o", "m", "e", "r">>,
     <<"u", "s", "e", "r">>,
     <<"c", "l", "i", "e", "n", "t">>,
     <<"m", "e", "m", "b", "e", "r">>}

StatusWords ==
    {<<"s", "t", "a", "t", "u", "s">>,
     <<"r", "e", "s", "u", "l", "t">>,
     <<"o", "u", "t", "c", "o", "m", "e">>}

\* The smallest element of S, in a sequence; none if S is empty
First(S) == IF S = {} THEN <<>> ELSE <<CHOOSE i \in S : \A j \in S : i <= j>>

\* C20: Business KPIs has at most one 'Customer/User Diversity' KPI, bound to
\* the first column in table order with a customer word in its name, and at
\* most one '<column> Success Rate' KPI, bound to the first categorical column
\* with a status word; each is absent when no column matches.
C20_FirstMatchOnly ==
    Called("generate_kpi_suggestions") =>
        LET business == KpisOf("Business KPIs")
            diversity == SelectSeq(business,
                                   LAMBDA k : k.calculation.fn = "nunique")
            success == SelectSeq(business,
                                 LAMBDA k : k.calculation.fn = "success_rate")
            customer == First(ColumnsWith(DTypes, CustomerWords))
            status == First(ColumnsWith({"object"}, StatusWords))
        IN  /\ [k \in DOMAIN diversity |-> Signature(diversity[k])] =
                   [k \in DOMAIN customer |->
                       <<<<"C", "u", "s", "t", "o", "m", "e", "r", "/",
                          "U", "s", "e", "r", " ", "D", "i", "v", "e", "r", "s", "i", "t", "y">>,
                         "nunique", data.cols[customer[k]].name>>]
            /\ [k \in DOMAIN success |-> Signature(success[k])] =
                   [k \in DOMAIN status |->
                       <<data.cols[status[k]].name \o <<" ", "S", "u", "c", "c",
                         "e", "s", "s", " ", "R", "a", "t", "e">>,
                         "success_rate", data.cols[status[k]].name>>]

\* Two customer columns, and two status columns after a numeric one named
\* outcome: one KPI each, bound to the first.
C20_Witness ==
    /\ Called("generate_kpi_suggestions")
    /\ Cardinality(ColumnsWith({"object"}, StatusWords)) = 2
    /\ Cardinality(ColumnsWith({"number"}, StatusWords)) = 1
    /\ \E k \in DOMAIN KpisOf("Business KPIs") :
           /\ KpisOf("Business KPIs")[k].calculation.fn = "success_rate"
           /\ KpisOf("Business KPIs")[k].calculation.column = data.cols[2].name

C20_WitnessCustomer ==
    /\ Called("generate_kpi_suggestions")
    /\ Cardinality(ColumnsWith(DTypes, CustomerWords)) = 2
    /\ \E k \in DOMAIN KpisOf("Business KPIs") :
           /\ KpisOf("Business KPIs")[k].calculation.fn = "nunique"
           /\ KpisOf("Business KPIs")[k].calculation.column = data.cols[1].name

-----------------------------------------------------------------------------
(* The KPI display, read off the table *)

\* The calculations that divide Python integers by the number of rows
DividesByRows == {"completeness", "diversity"}

\* The calculation of the KPI raises on the table
Raises(kpi) == NRows(data) = 0 /\ kpi.calculation.fn \in DividesByRows

\* The computation of the KPI fails on the table: it raises, or it gives no
\* number (None for an undefined ratio, nan)
Fails(kpi) ==
    \/ Raises(kpi)
    \/ Calculate(kpi, data, tie).kind \in {"none", "nan"}

\* C15: in the KPI display a KPI whose computation fails is shown as
\* 'Calculation unavailable', and every other KPI of the catalog, before and
\* after it, in its category and in the others, is evaluated and shown with
\* the result its calculation gives on its own.
C15_FailureIsolated ==
    Called("display_kpis") =>
        LET catalog == generate_kpi_suggestions(data)
        IN  /\ Len(ret.display) = Len(catalog)
            /\ \A k \in DOMAIN catalog :
                  /\ ret.display[k].category = catalog[k].category
                  /\ Len(ret.display[k].kpis) = Len(catalog[k].kpis)
                  /\ \A j \in DOMAIN catalog[k].kpis :
                        LET kpi == catalog[k].kpis[j]
                            entry == ret.display[k].kpis[j]
                        IN  /\ entry.kpi = kpi
                            /\ entry.shown = "Calculation unavailable" <=> Fails(kpi)
                            /\ ~Fails(kpi) => entry.result = Calculate(kpi, data, tie)

\* What holds of the display: what is shown is the catalog in its order,
\* up to where the run ended, each KPI with the result of its own
\* calculation; 'Calculation unavailable' is shown for the calculations that
\* raise and for no other, and a run that is not ended shows every KPI
C15_RaisingIsolated ==
    Called("display_kpis") =>
        LET catalog == generate_kpi_suggestions(data)
        IN  /\ Len(ret.display) <= Len(catalog)
            /\ ~ret.stopped => Len(ret.display) = Len(catalog)
            /\ \A k \in DOMAIN ret.display :
                  /\ ret.display[k].category = catalog[k].category
                  /\ Len(ret.display[k].kpis) <= Len(catalog[k].kpis)
                  /\ (~ret.stopped \/ k < Len(ret.display)) =>
                        Len(ret.display[k].kpis) = Len(catalog[k].kpis)
                  /\ \A j \in DOMAIN ret.display[k].kpis :
                        LET kpi == catalog[k].kpis[j]
                            entry == ret.display[k].kpis[j]
                        IN  /\ entry.kpi = kpi
                            /\ entry.shown = "Calculation unavailable" <=> Raises(kpi)
                            /\ ~Raises(kpi) => entry.result = Calculate(kpi, data, tie)

\* A table without rows: the completeness rate raises, the KPIs after it in
\* Data Quality KPIs and the categories after it are shown, as is what came
\* before a diversity index that raises.
C15_Witness ==
    /\ Called("display_kpis")
    /\ ~ret.stopped
    /\ \E k \in DOMAIN ret.display :
          /\ ret.display[k].category = "Data Quality KPIs"
          /\ ret.display[k].kpis[1].shown = "Calculation unavailable"
          /\ Len(ret.display[k].kpis) = 3
          /\ \A j \in 2 .. 3 : ret.display[k].kpis[j].shown # "Calculation unavailable"
          /\ k < Len(ret.display)
          /\ ret.display[Len(ret.display)].kpis # <<>>
    /\ \E k \in DOMAIN ret.display :
          /\ ret.display[k].category = "Performance KPIs"
          /\ ret.display[k].kpis[3].shown = "Calculation unavailable"
          /\ ret.display[k].kpis[1].shown = "fixed2"

\* The run went to its end and a KPI whose calculation returned None (a
\* growth rate from a first value of 0) is shown with the text of None
C15_NoneShown ==
    /\ Called("display_kpis")
    /\ ~ret.stopped
    /\ \E k \in DOMAIN ret.display :
       \E j \in DOMAIN ret.display[k].kpis :
          /\ ret.display[k].kpis[j].result.kind = "none"
          /\ ret.display[k].kpis[j].shown = "str"
          /\ NRows(data) > 0

\* The run ended in the display: a KPI of the catalog is not shown
C15_NotAllShown ==
    /\ Called("display_kpis")
    /\ ret.stopped
    /\ Len(ret.display) < Len(generate_kpi_suggestions(data))

SuccessWords ==
    {<<"s", "u", "c", "c", "e", "s", "s">>,
     <<"c", "o", "m", "p", "l", "e", "t", "e">>,
     <<"a", "p", "p", "r", "o", "v", "e", "d">>,
     <<"y", "e", "s">>,
     <<"t", "r", "u", "e">>,
     <<"1">>,
     <<"a", "c", "t", "i", "v", "e">>,
     <<"c", "o", "n", "f", "i", "r", "m", "e", "d">>}

\* The success-rate entries of the display
SuccessEntries ==
    {e \in UNION {Range(ret.display[k].kpis) : k \in DOMAIN ret.display} :
        e.kpi.calculation.fn = "success_rate"}

Successes(c) ==
    {r \in NonNullRows(c) :
        [i \in DOMAIN Str(c.vals[r]) |-> LowerChar(Str(c.vals[r])[i])] \in SuccessWords}

\* C18: the status Success Rate is (the non-null values whose lowercased
\* string is a success word) / (the non-null values) x 100, a number from 0 to
\* 100, and is 0, not an error, for a column without a non-null value.
C18_SuccessRate ==
    Called("display_kpis") =>
        \A e \in SuccessEntries :
            LET c == ColumnNamed(e.kpi.calculation.column)
                total == Cardinality(NonNullRows(c))
                good == Cardinality(Successes(c))
                value == e.result
            IN  /\ e.shown = "fixed2"
                /\ value.kind = "num"
                /\ value.count = 1 /\ Len(value.terms) = 1
                /\ ~value.terms[1].root
                /\ IF total = 0
                   THEN value.terms[1].num = 0
                   ELSE /\ value.scale = 100
                        /\ value.terms[1].num = good
                        /\ value.terms[1].den = total
                /\ value.terms[1].den > 0
                /\ 0 <= value.scale * value.terms[1].num
                /\ value.scale * value.terms[1].num <= 100 * value.terms[1].den

\* The values (success, failed, success): 2 / 3 x 100.
C18_Witness ==
    /\ Called("display_kpis")
    /\ Str(1) = <<"s", "u", "c", "c", "e", "s", "s">>
    /\ Str(0) = <<"f", "a", "i", "l", "e", "d">>
    /\ \E e \in SuccessEntries :
          /\ ColumnNamed(e.kpi.calculation.column).vals = <<1, 0, 1>>
          /\ e.result.scale = 100
          /\ e.result.terms = <<Term(2, 3, FALSE)>>

\* A column of nulls only: the rate is 0.
C18_WitnessNoValue ==
    /\ Called("display_kpis")
    /\ NRows(data) = 3
    /\ \E e \in SuccessEntries :
          /\ NonNullRows(ColumnNamed(e.kpi.calculation.column)) = {}
          /\ e.result.terms = <<Term(0, 1, FALSE)>>

-----------------------------------------------------------------------------
(* Repeated calls: memo is what an earlier call returned, ret what the last  *)
(* call returned.                                                            *)

\* The operations of DataAnalyzer and of KPIGenerator: the public methods
\* and the calculations bound to the KPIs
PureOps == {"get_basic_info", "get_column_info", "get_summary_statistics",
            "get_data_quality_metrics", "analyze_missing_values",
            "detect_outliers", "calculate_correlation_matrix",
            "find_strong_correlations", "analyze_categorical_distribution",
            "detect_data_patterns", "generate_kpi_suggestions",
            "kpi_calculation"}

\* The same operation called with the same arguments
SameCall(a, b) ==
    /\ a.op = b.op /\ a.method = b.method /\ a.threshold = b.threshold
    /\ a.column = b.column /\ a.kpi = b.kpi

C11_WitnessGrowth ==
    /\ ret.op = "kpi_calculation"
    /\ SameCall(memo, ret)
    /\ ret = memo
    /\ ret.value.kind = "num"
    /\ \E c \in Range(data.cols) : c.dtype = "datetime" /\ c.vals = <<1, 0, 1>>
    /\ generate_kpi_suggestions(data)[ret.kpi[1]].kpis[ret.kpi[2]].calculation.fn
          = "growth_rate"

\* The values of a column counted again, two of them equally often; a
\* column without a value, for which the call raises again
C11_WitnessCounts ==
    /\ ret.op = "analyze_categorical_distribution"
    /\ SameCall(memo, ret)
    /\ ret = memo
    /\ \/ /\ ret.exc = "none" /\ ret.value # <<>>
          /\ Len(ret.value[1].value_counts) = 2
       \/ ret.exc = "IndexError"

-----------------------------------------------------------------------------
(* The report generated twice *)

BothReports ==
    memo.op = "generate_analysis_report" /\ ret.op = "generate_analysis_report"

Headings == {"1. BASIC INFORMATION", "2. DATA QUALITY METRICS",
             "3. MISSING VALUES ANALYSIS", "4. KPI RECOMMENDATIONS"}

\* The section headings of a report, in the order of its lines
HeadingsOf(report) ==
    LET lines == SelectSeq(report, LAMBDA l : l.tag \in Headings)
    IN  [k \in DOMAIN lines |-> lines[k].tag]

SectionsInOrder(report) ==
    HeadingsOf(report) = <<"1. BASIC INFORMATION", "2. DATA QUALITY METRICS",
                           "3. MISSING VALUES ANALYSIS", "4. KPI RECOMMENDATIONS">>

\* C16: two runs of generate_analysis_report on the same table give the same
\* text, and the sections come in the order Basic Information, Data Quality
\* Metrics, Missing Values Analysis, KPI Recommendations.
C16_ByteIdentical ==
    /\ Called("generate_analysis_report") => SectionsInOrder(ret.report)
    /\ BothReports => ret.report = memo.report

\* C16 with the time of the run set aside: two runs on the same table give
\* the same lines except the line 'Generated on:', which differs only if the
\* runs fall in different seconds; the sections come in the stated order.
C16_IdenticalButTimestamp ==
    /\ Called("generate_analysis_report") => SectionsInOrder(ret.report)
    /\ BothReports =>
          /\ Len(ret.report) = Len(memo.report)
          /\ \A k \in DOMAIN ret.report :
                \/ ret.report[k] = memo.report[k]
                \/ /\ ret.report[k].tag = "Generated on: "
                   /\ memo.report[k].tag = "Generated on: "
                   /\ ret.now # memo.now

\* Two runs a second apart on a table with two columns missing equally often,
\* on a build that reverses ties.
C16_Witness ==
    /\ BothReports
    /\ memo.now < ret.now
    /\ Cardinality({k \in DOMAIN ret.report : ret.report[k].tag = " missing"}) = 2
    /\ \A c \in Range(data.cols) : MissingCount(c) = 1
    /\ tie[1] > tie[2]
    /\ \A k \in DOMAIN ret.report : k # 4 => ret.report[k] = memo.report[k]

-----------------------------------------------------------------------------
(* The session *)

FailedUpload == ret.op = "upload" /\ ret.exc # "none"

\* C17: after an upload that could not be read the session holds no data
\* (data = None, analysis_complete = False), whatever it held before, and no
\* analysis is rendered.
C17_FailedUploadResets ==
    FailedUpload =>
        /\ data = None
        /\ analysis_complete = FALSE
        /\ ~Rendering
        /\ ~ENABLED GetDataQualityMetrics

\* An earlier upload was read and its analysis rendered (and kept in memo);
\* then an upload failed.
C17_Witness ==
    /\ FailedUpload
    /\ memo.op = "get_data_quality_metrics"
    /\ memo.metrics.total_cells > 0
    /\ data = None

\* The handler of a failed upload, when it runs to its end, resets the
\* session.
C17_ResetsWhenHandlerEnds ==
    (FailedUpload /\ ~ret.stopped) =>
        /\ data = None
        /\ analysis_complete = FALSE
        /\ ~Rendering

\* A table was read; then an upload failed and the run stopped in st.error:
\* the error is shown, the session holds the table read before and the next
\* run renders it.
C17_StoppedInHandler ==
    /\ FailedUpload
    /\ ret.stopped /\ ret.writes = 0
    /\ data \in UploadTables
    /\ analysis_complete
    /\ ENABLED GetDataQualityMetrics

-----------------------------------------------------------------------------
(* The insights of a deck *)

\* The last call of generate_ai_insights had no client to call
WithoutKey == ppt.openai_client = "None"

\* The call of the service raised, or returned no choice
CallFailed(r) == r.raises # "none" \/ r.choices = <<>>

\* The service answered a text that is not JSON
ParsingFailed(r) ==
    /\ ~CallFailed(r)
    /\ r.choices[1].content \notin {"None", ""}
    /\ ~r.choices[1].json

PayloadKeys == {"summary", "key_themes", "recommendations", "content_quality"}

\* The outcome of the call of chat.completions.create of the last invocation
Outcome == ret.requests[Len(ret.requests)].response

\* The handler of a call or a parsing that failed was entered
HandlerEntered ==
    /\ ret.requests # <<>>
    /\ CallFailed(Outcome) \/ ParsingFailed(Outcome)

\* C21: generate_ai_insights never raises because of the service.  Without
\* an API key it returns the fixed 'AI analysis not available' payload and
\* calls nothing; when the call, or the parsing of its answer, fails no
\* exception leaves the method and it returns one fixed placeholder payload
\* with the keys summary, key_themes, recommendations and content_quality.
C21_InsightsNeverRaise ==
    ret.op = "generate_ai_insights" =>
        /\ WithoutKey =>
              /\ ret.exc = "none"
              /\ ret.insights.summary =
                     "AI analysis not available - API key not configured"
              /\ ret.insights.key_themes =
                     <<"AI analysis requires OpenAI API key">>
              /\ ret.insights.recommendations =
                     <<"Configure OpenAI API key for detailed insights">>
              /\ ret.insights.content_quality =
                     "Unable to assess without AI analysis"
              /\ ret.requests = <<>>
        /\ HandlerEntered =>
              /\ ret.exc = "none"
              /\ DOMAIN ret.insights = PayloadKeys
              /\ ret.insights.summary = "Error generating AI analysis"
              /\ ret.insights.key_themes = <<"Analysis failed">>
              /\ ret.insights.recommendations = <<"Check API configuration">>
              /\ ret.insights.content_quality = "Unable to assess due to error"

\* What holds of every invocation: the only exception that leaves the method
\* is Streamlit's, raised in the handler's st.error after a call or a parsing
\* that failed; a handler that runs to its end returns the placeholder
C21_PlaceholderUnlessStopped ==
    ret.op = "generate_ai_insights" =>
        /\ ret.exc \in {"none", "ScriptControlException"}
        /\ ret.exc = "ScriptControlException" =>
              /\ HandlerEntered
              /\ ret.stopped
              /\ ret.insights = NoPayload
        /\ (HandlerEntered /\ ~ret.stopped) =>
              /\ ret.exc = "none"
              /\ ret.insights = ErrorPayload
        /\ ~HandlerEntered => ret.exc = "none"

\* The service answered 429 to the request and to its two retries, the
\* client raised RateLimitError and the run ended in st.error: nothing is
\* returned
C21_WitnessStopped ==
    /\ ret.op = "generate_ai_insights"
    /\ ret.exc = "ScriptControlException"
    /\ Outcome.raises = "RateLimitError"
    /\ ret.insights = NoPayload

\* The service answered a text that is not JSON and the placeholder was
\* returned
C21_Witness ==
    /\ ret.op = "generate_ai_insights"
    /\ ret.requests # <<>>
    /\ ParsingFailed(Outcome)
    /\ ret.insights.summary = "Error generating AI analysis"

\* The other cases: the call raised; no key was configured
C21_WitnessRaised ==
    /\ ret.op = "generate_ai_insights"
    /\ ret.requests # <<>>
    /\ Outcome.raises = "APITimeoutError"
    /\ ret.exc = "none"

C21_WitnessNoKey ==
    /\ ret.op = "generate_ai_insights"
    /\ WithoutKey
    /\ ppt.presentation # <<>>
    /\ ret.insights.content_quality = "Unable to assess without AI analysis"

\* C22: one invocation of generate_ai_insights sends at most one request to
\* the service, a failed or empty answer is not asked for again, and no
\* request is sent without an API key; over a session the requests never
\* outnumber the invocations made.
C22_AtMostOneRequest ==
    /\ ret.op = "generate_ai_insights" =>
          /\ Len(ret.requests) <= 1
          /\ WithoutKey => Len(ret.requests) = 0
    /\ ppt.requests <= Started(ppt)
    /\ WithoutKey => ppt.requests = 0

\* What holds of every invocation: one call of chat.completions.create at
\* most, none without an API key; the requests of one call are one more than
\* the failures that the client asked again for, at most 1 + max_retries; an
\* answer without content, or one that does not parse, is not asked for
\* again
C22_OneCallOfCreate ==
    /\ ret.op = "generate_ai_insights" =>
          /\ ret.calls = IF WithoutKey THEN 0 ELSE 1
          /\ WithoutKey => ret.requests = <<>>
          /\ ~WithoutKey => Len(ret.requests) \in 1 .. 1 + MaxRetries
          /\ \A k \in 1 .. Len(ret.requests) - 1 :
                ret.requests[k].response.raises \in Retried
    /\ ppt.requests <= (1 + MaxRetries) * Started(ppt)
    /\ \A c \in Callers :
          /\ ppt.calls[c].pc = "idle" => ppt.calls[c].sent = <<>>
          /\ Len(ppt.calls[c].sent) <= MaxRetries
    /\ WithoutKey => ppt.requests = 0

\* A caller waits in chat.completions.create, its one request sent and the
\* slides written, while another caller's call has been made and has
\* returned
C22_WhileWaiting ==
    /\ ppt.calls["A"] = [pc |-> "waiting", sent |-> <<>>]
    /\ ppt.calls["B"] = Idle
    /\ Len(ppt.slides_data) = 2
    /\ ppt.requests = 2
    /\ ppt.invocations = 1
    /\ ret.op = "generate_ai_insights"
    /\ Len(ret.requests) = 1

\* The service answered 429 three times to one invocation: three requests
\* were sent by the one call of chat.completions.create
C22_ThreeRequests ==
    /\ ret.op = "generate_ai_insights"
    /\ ret.calls = 1
    /\ Len(ret.requests) = 1 + MaxRetries
    /\ \A k \in DOMAIN ret.requests :
          ret.requests[k].response.raises = "RateLimitError"
    /\ ret.insights = ErrorPayload

\* The answer had no content: one request, not asked for again
C22_Witness ==
    /\ ret.op = "generate_ai_insights"
    /\ ppt.invocations = MaxInsights
    /\ ppt.requests = MaxInsights
    /\ Len(ret.requests) = 1
    /\ ~CallFailed(Outcome)
    /\ Outcome.choices[1].content = ""
    /\ ret.insights.summary = "No content returned from AI analysis"

-----------------------------------------------------------------------------
(* Statistical KPIs *)

\* The Statistical KPIs of one numeric column hold a Range Ratio or not
PerColumn == IF NRows(data) > 1 THEN 3 ELSE 2

\* C23: the Statistical KPIs are, for each numeric column in table order,
\* 'Average X', 'X Variability Index' and, if and only if the table has more
\* than one row, 'X Range Ratio': 3 KPIs per numeric column with more than
\* one row and 2 otherwise; a numeric column sale_amount gets
\* 'Average sale_amount'.
C23_StatisticalKpis ==
    Called("generate_kpi_suggestions") =>
        LET stat == KpisOf("Statistical KPIs")
            at(k, j) == stat[(k - 1) * PerColumn + j].name
        IN  /\ Len(stat) = PerColumn * Len(NumericNames)
            /\ \A k \in DOMAIN NumericNames :
                  /\ at(k, 1) = <<"A", "v", "e", "r", "a", "g", "e", " ">>
                                    \o NumericNames[k]
                  /\ at(k, 2) = NumericNames[k] \o
                                    <<" ", "V", "a", "r", "i", "a", "b", "i", "l",
                                      "i", "t", "y", " ", "I", "n", "d", "e", "x">>
                  /\ NRows(data) > 1 =>
                        at(k, 3) = NumericNames[k] \o
                                    <<" ", "R", "a", "n", "g", "e", " ", "R", "a",
                                      "t", "i", "o">>
            /\ \A i \in DOMAIN stat :
                  stat[i].calculation.fn = "range_ratio" => NRows(data) > 1
            /\ (\E c \in Range(data.cols) :
                    /\ c.dtype = "number"
                    /\ c.name = <<"s", "a", "l", "e", "_", "a", "m", "o", "u",
                                  "n", "t">>)
                  => \E i \in DOMAIN stat :
                        stat[i].name = <<"A", "v", "e", "r", "a", "g", "e", " ",
                                         "s", "a", "l", "e", "_", "a", "m", "o",
                                         "u", "n", "t">>

\* C23 witness: three numeric columns and two rows give nine KPIs, the last
\* one the Range Ratio of sale_amount
C23_Witness ==
    /\ Called("generate_kpi_suggestions")
    /\ Len(NumericNames) = 3
    /\ NRows(data) = 2
    /\ Len(KpisOf("Statistical KPIs")) = 9
    /\ KpisOf("Statistical KPIs")[9].calculation.fn = "range_ratio"
    /\ KpisOf("Statistical KPIs")[9].calculation.column =
           <<"s", "a", "l", "e", "_", "a", "m", "o", "u", "n", "t">>

\* C23, one row: two KPIs for the column and no Range Ratio
C23_WitnessOneRow ==
    /\ Called("generate_kpi_suggestions")
    /\ Len(NumericNames) = 3
    /\ NRows(data) = 1
    /\ Len(KpisOf("Statistical KPIs")) = 6

-----------------------------------------------------------------------------
(* The evaluation of the statistical KPIs *)

\* The column of the table with this name
Named(name) == CHOOSE c \in Range(data.cols) : c.name = name

\* The rows of a column that hold a value
Valued(c) == {r \in DOMAIN c.vals : c.vals[r] # NaN}

\* The sum of the values of a column
Total0(c) == SumOver(Valued(c), [r \in Valued(c) |-> c.vals[r]])

\* The KPIs evaluated by the last call, with their results
Evaluated ==
    IF ret.op \in {"display_kpis", "calculation"}
    THEN Flatten([k \in DOMAIN ret.display |-> ret.display[k].kpis])
    ELSE <<>>

\* The square of (std / mean) is num / den: with n values of sum S,
\* std^2 = sum (x - S/n)^2 / (n - 1) and mean^2 = S^2 / n^2
IsStdOverMean(t, c) ==
    LET n == Cardinality(Valued(c))
        S == Total0(c)
        dev == SumOver(Valued(c),
                       [r \in Valued(c) |->
                           (n * c.vals[r] - S) * (n * c.vals[r] - S)])
    IN  /\ t.root
        /\ t.den # 0
        /\ t.num * ((n - 1) * S * S) = t.den * dev

\* C24: 'X Variability Index' evaluates to None when the mean of the column
\* is 0 or undefined and to std / mean x 100 otherwise; 'X Range Ratio'
\* evaluates to None when the minimum is 0 or undefined and to max / min
\* otherwise; neither raises nor divides by zero, on an all-null column and
\* on a column without rows as on any other.
C24_StatisticalEvaluation ==
    \A i \in DOMAIN Evaluated :
        LET fn == Evaluated[i].kpi.calculation.fn
            c == Named(Evaluated[i].kpi.calculation.column)
            result == Evaluated[i].result
            some == Valued(c) # {}
            lo == CHOOSE x \in {c.vals[r] : r \in Valued(c)} :
                      \A r \in Valued(c) : x <= c.vals[r]
            hi == CHOOSE x \in {c.vals[r] : r \in Valued(c)} :
                      \A r \in Valued(c) : x >= c.vals[r]
        IN  /\ fn = "variability" =>
                  /\ result.kind # "raise"
                  /\ result.kind = "none" <=> (~some \/ Total0(c) = 0)
                  /\ result.kind = "nan" <=>
                         (Total0(c) # 0 /\ Cardinality(Valued(c)) = 1)
                  /\ result.kind = "num" =>
                         /\ result.scale = 100 /\ result.count = 1
                         /\ Len(result.terms) = 1
                         /\ IsStdOverMean(result.terms[1], c)
            /\ fn = "range_ratio" =>
                  /\ result.kind \in {"none", "num"}
                  /\ result.kind = "none" <=> (~some \/ lo = 0)
                  /\ result.kind = "num" =>
                         /\ result.scale = 1 /\ result.count = 1
                         /\ Len(result.terms) = 1
                         /\ ~result.terms[1].root
                         /\ result.terms[1].den # 0
                         /\ result.terms[1].num * lo = result.terms[1].den * hi

\* C24 witness: a column of two zeros has mean 0, and its Variability Index
\* is None
C24_Witness ==
    \E i \in DOMAIN Evaluated :
        /\ Evaluated[i].kpi.calculation.fn = "variability"
        /\ Named(Evaluated[i].kpi.calculation.column).vals = <<0, 0>>
        /\ Evaluated[i].result.kind = "none"

\* C24, the other cases: the Range Ratio of a column without rows is None;
\* a Variability Index and a Range Ratio with a value
C24_WitnessNoRows ==
    /\ NRows(data) = 0
    /\ \E i \in DOMAIN Evaluated :
          /\ Evaluated[i].kpi.calculation.fn = "range_ratio"
          /\ Evaluated[i].result.kind = "none"

C24_WitnessValues ==
    /\ ret.op = "display_kpis"
    /\ \E i, j \in DOMAIN Evaluated :
          /\ Evaluated[i].kpi.calculation.fn = "variability"
          /\ Evaluated[i].result.kind = "num"
          /\ Evaluated[j].kpi.calculation.fn = "range_ratio"
          /\ Evaluated[j].result.kind = "num"
          /\ Named(Evaluated[j].kpi.calculation.column).vals = <<NaN, 1, 1>>
          /\ Named(Evaluated[i].kpi.calculation.column).vals = <<2, 2, 5>>

-----------------------------------------------------------------------------
(* The growth rate *)

\* The rows that can come first when the rows are ordered by the dates of
\* dt: those of the earliest date; the rows without a date come after the
\* dated ones, in table order
FirstRows(dt) ==
    IF Valued(dt) = {} THEN {1}
    ELSE {r \in Valued(dt) : \A q \in Valued(dt) : dt.vals[r] <= dt.vals[q]}

\* The rows that can come last
LastRows(dt) ==
    LET undated == DOMAIN dt.vals \ Valued(dt)
    IN  IF undated # {} THEN {r \in undated : \A q \in undated : q <= r}
        ELSE {r \in Valued(dt) : \A q \in Valued(dt) : dt.vals[r] >= dt.vals[q]}

\* result is the growth from the value first to the value last
IsGrowth(result, first, last) ==
    IF first = NaN \/ first = 0 \/ last = NaN
    THEN result.kind = "none"
    ELSE /\ result.kind = "num"
         /\ result.scale = 100 /\ result.count = 1
         /\ Len(result.terms) = 1
         /\ ~result.terms[1].root
         /\ result.terms[1].den # 0
         /\ result.terms[1].num * first = result.terms[1].den * (last - first)

\* The pairs (numeric column, datetime column), numeric column first
GrowthPairs ==
    LET dates == Ascending({i \in 1 .. NCols(data) :
                               data.cols[i].dtype = "datetime"})
        nd == Len(dates)
    IN  [n \in 1 .. Len(NumericNames) * nd |->
            <<NumericNames[((n - 1) \div nd) + 1],
              data.cols[dates[((n - 1) % nd) + 1]].name>>]

\* C25: the growth rate of a (numeric, datetime) pair is (last - first) /
\* first x 100 for the numeric values of the rows that are first and last by
\* date; it is None when first is 0 or null, when last is null and when the
\* computation fails (no row), and it never raises.  One growth-rate KPI is
\* generated for every pair, the numeric column being the outer loop.
C25_GrowthRate ==
    /\ \A i \in DOMAIN Evaluated :
          Evaluated[i].kpi.calculation.fn = "growth_rate" =>
              LET c == Named(Evaluated[i].kpi.calculation.column)
                  dt == Named(Evaluated[i].kpi.calculation.date_column)
                  result == Evaluated[i].result
              IN  /\ result.kind # "raise"
                  /\ NRows(data) = 0 => result.kind = "none"
                  /\ NRows(data) > 0 =>
                        \E rf \in FirstRows(dt), rl \in LastRows(dt) :
                            /\ NRows(data) > 1 => rf # rl
                            /\ IsGrowth(result, c.vals[rf], c.vals[rl])
    /\ Called("generate_kpi_suggestions") =>
          LET growth == SelectSeq(KpisOf("Time-based KPIs"),
                                  LAMBDA k : k.calculation.fn = "growth_rate")
          IN  [n \in DOMAIN growth |->
                  <<growth[n].calculation.column,
                    growth[n].calculation.date_column>>] = GrowthPairs

\* C25 witness: the row without a date comes last, so the values 1 (dated)
\* and 0 (undated) give a growth of -100
C25_Witness ==
    \E i \in DOMAIN Evaluated :
        /\ Evaluated[i].kpi.calculation.fn = "growth_rate"
        /\ Named(Evaluated[i].kpi.calculation.date_column).vals = <<NaN, 1>>
        /\ Named(Evaluated[i].kpi.calculation.column).vals = <<0, 1>>
        /\ Evaluated[i].result.kind = "num"
        /\ Evaluated[i].result.terms[1].num < 0

\* C25, the other cases: a first value of 0; a table without rows; two
\* datetime columns
C25_WitnessZeroFirst ==
    \E i \in DOMAIN Evaluated :
        /\ Evaluated[i].kpi.calculation.fn = "growth_rate"
        /\ Named(Evaluated[i].kpi.calculation.date_column).vals = <<0, 1>>
        /\ Named(Evaluated[i].kpi.calculation.column).vals = <<0, 1>>
        /\ Evaluated[i].result.kind = "none"

C25_WitnessNoRows ==
    /\ NRows(data) = 0
    /\ \E i \in DOMAIN Evaluated :
          /\ Evaluated[i].kpi.calculation.fn = "growth_rate"
          /\ Evaluated[i].result.kind = "none"

C25_WitnessPairs ==
    /\ Called("generate_kpi_suggestions")
    /\ Len(GrowthPairs) = 2
    /\ GrowthPairs[1][2] # GrowthPairs[2][2]

-----------------------------------------------------------------------------
(* The consistency score *)

\* The numeric columns (positions), in table order
NumericPositions ==
    Ascending({i \in 1 .. NCols(data) : data.cols[i].dtype = "number"})

\* The mean of the column is neither undefined nor 0
HasMean(c) == Valued(c) # {} /\ Total0(c) # 0

\* C26: the 'Numerical Data Consistency Score' is the sum over the numeric
\* columns of std / mean, 0 being taken for a column whose mean is 0 or
\* undefined, divided by the number of all the numeric columns; the KPI is
\* generated only for a table with a numeric column.  (std is not a number
\* for a column of one value, and neither is the score then.)
C26_ConsistencyScore ==
    ret.op = "display_kpis" =>
        /\ (\E i \in DOMAIN Evaluated :
                Evaluated[i].kpi.calculation.fn = "consistency")
              => HasColumnOfType("number")
        /\ (HasColumnOfType("number") /\ ~ret.stopped) =>
              \E i \in DOMAIN Evaluated :
                  Evaluated[i].kpi.calculation.fn = "consistency"
        /\ \A i \in DOMAIN Evaluated :
              Evaluated[i].kpi.calculation.fn = "consistency" =>
                  LET result == Evaluated[i].result
                      col(k) == data.cols[NumericPositions[k]]
                  IN  IF \E k \in DOMAIN NumericPositions :
                            HasMean(col(k)) /\ Cardinality(Valued(col(k))) = 1
                      THEN result.kind = "nan"
                      ELSE /\ result.kind = "num"
                           /\ result.scale = 1
                           /\ result.count = Len(NumericPositions)
                           /\ Len(result.terms) = Len(NumericPositions)
                           /\ \A k \in DOMAIN NumericPositions :
                                 IF HasMean(col(k))
                                 THEN IsStdOverMean(result.terms[k], col(k))
                                 ELSE /\ result.terms[k].num = 0
                                      /\ result.terms[k].den # 0

\* C26 witness: of two numeric columns the first has mean 0; it adds 0 to
\* the sum, which is divided by 2
C26_Witness ==
    /\ ret.op = "display_kpis"
    /\ Len(NumericPositions) = 2
    /\ data.cols[1].vals = <<0, 0>>
    /\ data.cols[2].vals = <<2, 4>>
    /\ \E i \in DOMAIN Evaluated :
          /\ Evaluated[i].kpi.calculation.fn = "consistency"
          /\ Evaluated[i].result.kind = "num"
          /\ Evaluated[i].result.count = 2
          /\ Evaluated[i].result.terms[1].num = 0
          /\ Evaluated[i].result.terms[2].num > 0

\* C26, the other case: no numeric column, no score
C26_WitnessNoNumeric ==
    /\ ret.op = "display_kpis"
    /\ ~HasColumnOfType("number")
    /\ NCols(data) = 2
    /\ \E i \in DOMAIN Evaluated :
          Evaluated[i].kpi.calculation.fn = "uniqueness"

-----------------------------------------------------------------------------
(* The KPI engine and the quality metrics on the same table *)

\* The result of the KPI calculated by fn in a display
ResultOf(display, fn) ==
    LET all == Flatten([k \in DOMAIN display |-> display[k].kpis])
    IN  all[CHOOSE i \in DOMAIN all : all[i].kpi.calculation.fn = fn].result

\* The display shows the KPI calculated by fn
Shows(display, fn) ==
    \E k \in DOMAIN display :
        \E j \in DOMAIN display[k].kpis :
            display[k].kpis[j].kpi.calculation.fn = fn

\* The number scale * num / den is within half a hundredth of h hundredths
WithinRounding(result, h) ==
    LET t == result.terms[1]
        diff == 100 * result.scale * t.num - h * t.den
    IN  /\ result.kind = "num" /\ Len(result.terms) = 1 /\ result.count = 1
        /\ ~t.root /\ t.den > 0
        /\ 2 * (IF diff < 0 THEN -diff ELSE diff) <= t.den

\* C27: on a table with at least one cell the 'Data Density Score' is
\* non-null cells / total cells x 100 and agrees with the Data Completeness
\* of get_data_quality_metrics, and with 100 - Missing Percentage, up to the
\* rounding to 2 decimals; on a table with at least one row 'Data Uniqueness
\* Rate' plus Duplicate Percentage is 100 up to that rounding.
C27_DensityIsCompleteness ==
    \A shown \in {ret, memo}, quality \in {ret, memo} :
        (/\ shown.op = "display_kpis"
         /\ quality.op = "get_data_quality_metrics") =>
            LET density == ResultOf(shown.display, "density")
                uniqueness == ResultOf(shown.display, "uniqueness")
                cells == NRows(data) * NCols(data)
                filled == Cardinality({<<i, r>> \in (1 .. NCols(data)) \X (1 .. NRows(data)) :
                                          data.cols[i].vals[r] # NaN})
            IN  /\ ~shown.stopped =>
                      /\ Shows(shown.display, "density")
                      /\ Shows(shown.display, "uniqueness")
                /\ (cells > 0 /\ Shows(shown.display, "density")) =>
                      /\ density.kind = "num" /\ density.scale = 100
                      /\ density.terms[1].num * cells = density.terms[1].den * filled
                      /\ WithinRounding(density, quality.metrics.completeness.h)
                      /\ WithinRounding(density,
                                        10000 - quality.metrics.missing_pct.h)
                /\ (NRows(data) > 0 /\ Shows(shown.display, "uniqueness")) =>
                      WithinRounding(uniqueness,
                                     10000 - quality.metrics.duplicate_pct.h)

\* C27 witness: 4 cells of 6 are filled and one row of 3 is a duplicate;
\* the metrics are 66.67 and 33.33, the KPIs 66.666... both
C27_Witness ==
    /\ ret.op = "display_kpis" /\ ~ret.stopped
    /\ memo.op = "get_data_quality_metrics"
    /\ memo.metrics.completeness.h = 6667
    /\ memo.metrics.duplicate_pct.h = 3333
    /\ ResultOf(ret.display, "density").terms[1].den = 6
    /\ ResultOf(ret.display, "uniqueness").kind = "num"

-----------------------------------------------------------------------------
(* The session over several uploads *)

\* C28: after any sequence of uploads, read or failed, from the initial
\* state (data = None, analysis_complete = False), analysis_complete is True
\* if and only if data is not None; the analysis is rendered only when a
\* table is loaded; an upload that is read puts the table just read in the
\* place of the one the session held.
C28_SessionInvariant ==
    /\ analysis_complete <=> data # None
    /\ ENABLED GetDataQualityMetrics => data \in UploadTables
    /\ ret.op = "get_data_quality_metrics" => data \in UploadTables
    /\ (ret.op = "upload" /\ ret.exc = "none" /\ ~ret.stopped) =>
          /\ ret.read \in UploadTables
          /\ data = ret.read

\* What holds of the two fields: a run that makes both assignments leaves
\* them in step, and the analysis is rendered only with a table loaded
C28_InStepWhenRunEnds ==
    /\ (ret.op = "upload" /\ ~ret.stopped) =>
          (analysis_complete <=> data # None)
    /\ ENABLED GetDataQualityMetrics => data \in UploadTables

\* The first upload of a session is read and the run ends at the second
\* assignment (209): the session holds the table, analysis_complete is False
C28_TableNotComplete ==
    /\ ret.op = "upload" /\ ret.exc = "none" /\ ret.writes = 1
    /\ data = ret.read /\ data \in UploadTables
    /\ ~analysis_complete
    /\ ~ENABLED GetDataQualityMetrics

\* A table is loaded, an upload fails and the run ends at the second
\* assignment (217): the session holds no table, analysis_complete is True
C28_CompleteNoTable ==
    /\ ret.op = "upload" /\ ret.exc = "Exception" /\ ret.writes = 1
    /\ data = None
    /\ analysis_complete

\* C28 witness: a table was read (and remembered), then another one was
\* read: the session holds the second
C28_Witness ==
    /\ memo.op = "upload" /\ memo.exc = "none" /\ ~memo.stopped
    /\ ret.op = "upload" /\ ret.exc = "none" /\ ~ret.stopped
    /\ memo.read # ret.read
    /\ NRows(memo.read) = 1
    /\ data = ret.read
    /\ analysis_complete

\* C28, after a failure: an upload failed, then one was read
C28_WitnessAfterFailure ==
    /\ memo.op = "upload" /\ memo.exc = "Exception"
    /\ ret.op = "get_data_quality_metrics"
    /\ analysis_complete

-----------------------------------------------------------------------------
(* The names of the KPIs of a category *)

\* Two KPIs of one category that have the same name
SameName(category, i, j) ==
    /\ i \in DOMAIN KpisOf(category) /\ j \in DOMAIN KpisOf(category)
    /\ i < j
    /\ KpisOf(category)[i].name = KpisOf(category)[j].name

\* The growth rates of one numeric column over two datetime columns
GrowthRateTwice(a, b) ==
    /\ a.calculation.fn = "growth_rate" /\ b.calculation.fn = "growth_rate"
    /\ a.calculation.column = b.calculation.column
    /\ a.calculation.date_column # b.calculation.date_column

\* The totals of one numeric column whose name has a revenue word and a
\* count word
TotalTwice(a, b) ==
    /\ a.calculation.fn = "sum" /\ b.calculation.fn = "sum"
    /\ a.calculation.column = b.calculation.column
    /\ \E w \in RevenueWords : NameContains(Named(a.calculation.column), w)
    /\ \E w \in CountWords : NameContains(Named(a.calculation.column), w)

\* C29 as stated: within each category of generate_kpi_suggestions no two
\* KPI definitions have the same name, whatever the schema of the table.
C29_UniqueNames ==
    Called("generate_kpi_suggestions") =>
        \A k \in DOMAIN Categories :
            \A i, j \in DOMAIN KpisOf(Categories[k]) :
                ~SameName(Categories[k], i, j)

\* The name of the KPI is words put before the name of its column; words
\* put after it
NamedBefore(a) ==
    LET column == a.calculation.column
    IN  /\ Len(a.name) > Len(column)
        /\ SubSeq(a.name, Len(a.name) - Len(column) + 1, Len(a.name)) = column

NamedAfter(a) ==
    LET column == a.calculation.column
    IN  /\ Len(a.name) > Len(column)
        /\ SubSeq(a.name, 1, Len(column)) = column

\* Two KPIs made by different rules for different columns, the one named
\* with words before its column and the other with words after
JoinedNames(a, b) ==
    /\ a.calculation.column # b.calculation.column
    /\ a.calculation.fn # b.calculation.fn
    /\ \/ NamedBefore(a) /\ NamedAfter(b)
       \/ NamedBefore(b) /\ NamedAfter(a)

\* C29 amended: within a category two KPI definitions have the same name
\* only if they are the Growth Rates of one numeric column over different
\* datetime columns, or the two 'Total X' of a numeric column X whose name
\* has both a revenue word and a count word, or two KPIs made by different
\* rules for different columns whose names hold the words of the rules
\* ('Average x' and 'x Variability Index').
C29_SameNameOnlyTwice ==
    Called("generate_kpi_suggestions") =>
        \A k \in DOMAIN Categories :
            \A i, j \in DOMAIN KpisOf(Categories[k]) :
                SameName(Categories[k], i, j) =>
                    \/ GrowthRateTwice(KpisOf(Categories[k])[i],
                                       KpisOf(Categories[k])[j])
                    \/ TotalTwice(KpisOf(Categories[k])[i],
                                  KpisOf(Categories[k])[j])
                    \/ JoinedNames(KpisOf(Categories[k])[i],
                                   KpisOf(Categories[k])[j])

\* C29 witness: with two datetime columns 'sales_count Growth Rate' is
\* there twice, and 'Total sales_count' is there twice
C29_Witness ==
    /\ Called("generate_kpi_suggestions")
    /\ \E i, j \in DOMAIN KpisOf("Time-based KPIs") :
          /\ SameName("Time-based KPIs", i, j)
          /\ GrowthRateTwice(KpisOf("Time-based KPIs")[i],
                             KpisOf("Time-based KPIs")[j])
    /\ \E i, j \in DOMAIN KpisOf("Business KPIs") :
          /\ SameName("Business KPIs", i, j)
          /\ TotalTwice(KpisOf("Business KPIs")[i], KpisOf("Business KPIs")[j])

\* The numeric columns 'Average x' and 'x Variability Index': the average of
\* the second and the variability index of the first are both named
\* 'Average x Variability Index'
C29_WitnessJoined ==
    /\ Called("generate_kpi_suggestions")
    /\ \E i, j \in DOMAIN KpisOf("Statistical KPIs") :
          /\ SameName("Statistical KPIs", i, j)
          /\ JoinedNames(KpisOf("Statistical KPIs")[i],
                         KpisOf("Statistical KPIs")[j])
          /\ KpisOf("Statistical KPIs")[i].calculation.fn = "variability"
          /\ KpisOf("Statistical KPIs")[j].calculation.fn = "mean"

\* The text column 'Total sales result' and the numeric column
\* 'sales result Success Rate': the success rate of the first and the total
\* of the second have one name
C29_WitnessJoinedBusiness ==
    /\ Called("generate_kpi_suggestions")
    /\ \E i, j \in DOMAIN KpisOf("Business KPIs") :
          /\ SameName("Business KPIs", i, j)
          /\ JoinedNames(KpisOf("Business KPIs")[i], KpisOf("Business KPIs")[j])
          /\ KpisOf("Business KPIs")[i].calculation.fn = "sum"
          /\ KpisOf("Business KPIs")[j].calculation.fn = "success_rate"

-----------------------------------------------------------------------------
(* detect_outliers with a method it does not know *)

Unsupported == ret.op = "detect_outliers" /\ ret.method \notin {"iqr", "zscore"}

\* C30: detect_outliers called with a method other than 'iqr' and 'zscore'
\* returns an empty mapping and does not raise, for every table, with
\* numeric columns or without; it reports no value under such a method.
C30_UnsupportedMethodEmpty ==
    Unsupported => ret.exc = "none" /\ ret.outliers = <<>>

\* What holds of such a call: it reports nothing, and it returns (the empty
\* mapping) exactly when the table has no numeric column
C30_WithoutNumericColumns ==
    Unsupported =>
        /\ ret.outliers = <<>>
        /\ ret.exc = "none" <=> NumericCols(data) = <<>>

====
